---- MODULE Spec2Model ----
(***************************************************************************)
(* The scoring service of the contest management system                    *)
(* (cms/service/ScoringService.py): the queue of operations for the remote *)
(* rankings, the ingestion of evaluations and tokens, and the catch-up of  *)
(* the submissions left without score.                                     *)
(***************************************************************************)
EXTENDS Integers, Sequences, FiniteSets, TLC

(***************************************************************************)
(* Bounds of the model.                                                    *)
(***************************************************************************)
\* Entries ever appended to operation_queue in one behaviour.
MaxOps == 8
\* Longest submission_ids_to_score the catch-up model builds.
MaxBacklog == 10
\* Longest submission_ids_to_token the catch-up model builds.
MaxTokenBacklog == 17

(***************************************************************************)
(* Program constants.                                                      *)
(***************************************************************************)
\* score_old_submissions scores at most this many submissions per call.
ScoreCap == 4
\* score_old_submissions tokens at most this many submissions per call.
TokenCap == 16

(***************************************************************************)
(* The contest in the database: three submissions, the last one by a       *)
(* hidden user; every id outside Subs is not in the database.              *)
(***************************************************************************)
Subs == {1, 2, 3}
MissingId == Cardinality(Subs) + 1
Ids == Subs \cup {MissingId}
Users == {"u1", "u2", "hid"}
Tasks == {"t1", "t2"}
SubUser(s) == IF s = 1 THEN "u1" ELSE IF s = 2 THEN "u2" ELSE "hid"
SubTask(s) == IF s = 2 THEN "t2" ELSE "t1"
UserHidden(u) == u = "hid"
\* The submissions of the users that are not hidden.
Visible == {s \in Subs : ~UserHidden(SubUser(s))}
\* The token of a submission: 0 when no token was played, else its timestamp.
TokenTimestamp(s) == IF s = 1 THEN 7 ELSE 0
\* The outcome lists an evaluation can leave (the first testcase is public).
OutcomeLists == {<<1, 1>>, <<1, 0>>}

\* The ranking servers of the configuration.
AllRankings == {"A", "B"}
\* The HTTP statuses a ranking answers; 0 stands for a request that raised.
Statuses == {200, 201, 500, 0}

VARIABLES
    rankings,                 \* self.rankings
    operation_queue,          \* self.operation_queue
    pc,                       \* "idle", or "dispatch" inside dispatch_operations
    queue_pos,                \* position of the for loop of dispatch_operations
    new_queue,                \* local new_queue of dispatch_operations
    failed_rankings,          \* local failed_rankings of dispatch_operations
    accepting,                \* rankings that accept every request from now on
    enqueued,                 \* number of entries appended so far
    delivered,                \* per ranking, the entries delivered, in order
    attempts,                 \* the calls of the running dispatch_operations
    resync,                   \* per ranking, the (method, id) delivered since
                              \* __init__ or the last reinitialize
    pool,                     \* the scorers' pools, by submission id
    submission_ids_scored,    \* self.submission_ids_scored
    submission_ids_tokened,   \* self.submission_ids_tokened
    evaluations,              \* database: outcomes of each submission
    sub_db,                   \* database: score fields of each submission
    ranking_view,             \* database: the ranking view of the contest
    last_scored,              \* what the last new_evaluation that returned left
    submission_ids_to_score,  \* self.submission_ids_to_score
    submission_ids_to_token,  \* self.submission_ids_to_token
    armed,                    \* number of live score_old_submissions timeouts
    catchup,                  \* history of the catch-up: s and t are the lengths
                              \* of the two lists after the last addition, calls
                              \* the number of new_evaluation calls of each
                              \* score_old_submissions since, watch the place,
                              \* counted from the end of submission_ids_to_score,
                              \* of the first id of a watched invalidation,
                              \* rescored whether the ids of the last watched
                              \* invalidation were all passed to new_evaluation,
                              \* passed the ids score_old_submissions passed to
                              \* new_evaluation and no invalidation named since
    wpc,                      \* worker: "idle", or "evaluate" inside
                              \* TaskType.evaluate
    call,                     \* worker: the last call of a step or of a task
                              \* type method, with its arguments and its result
    result,                   \* TaskType.result
    ignore_job,               \* TaskType.ignore_job
    tested,                   \* the calls of evaluate_testcase of the running
                              \* TaskType.evaluate, in order
    job,                      \* the job a Batch or OutputOnly method works on
    sandboxes,                \* every sandbox create_sandbox returned, with
                              \* its name: "live" or "deleted"
    task_db                   \* database: the contest and the num of each task

queue_vars == <<rankings, operation_queue, pc, queue_pos, new_queue,
                failed_rankings, accepting, enqueued, delivered,
                attempts, resync>>
score_vars == <<pool, submission_ids_scored, submission_ids_tokened,
                evaluations, sub_db, ranking_view, last_scored>>
backlog_vars == <<submission_ids_to_score, submission_ids_to_token, armed,
                  catchup>>
worker_vars == <<wpc, call, result, ignore_job, tested, job, sandboxes>>
admin_vars == <<task_db>>
vars == <<queue_vars, score_vars, backlog_vars, worker_vars, admin_vars>>

(***************************************************************************)
(* The tasks the admin server assigns to contests.  A task that is in no   *)
(* contest has contest None and num None (<<>>).                           *)
(***************************************************************************)
NumTasks == 3
TaskIds == 1..NumTasks
Contests == {"c1", "c2"}
Unassigned == [contest |-> <<>>, num |-> <<>>]

(***************************************************************************)
(* Helpers on sequences.                                                   *)
(***************************************************************************)
Range(q) == {q[i] : i \in 1..Len(q)}

RECURSIVE SumSeq(_)
SumSeq(q) == IF q = <<>> THEN 0 ELSE Head(q) + SumSeq(Tail(q))

Max(S) == CHOOSE x \in S : \A y \in S : y <= x

\* The element of a set of one element.
The(S) == CHOOSE x \in S : TRUE

\* q without its last k elements.
Front(q, k) == SubSeq(q, 1, Len(q) - k)

(***************************************************************************)
(* The scorer: a function of the outcomes of one submission.  A nullable   *)
(* field is <<>> for None and <<v>> for the value v.                       *)
(***************************************************************************)
compute_score(outcomes) ==
    [score          |-> SumSeq(outcomes),
     public_score   |-> outcomes[1],
     details        |-> outcomes,
     public_details |-> <<outcomes[1]>>]

\* ScoreType.add_submission: the pool entry of the submission is replaced.
add_submission(p, submission_id, outcomes, tokened) ==
    [p EXCEPT ![submission_id] =
        <<[evaluations |-> outcomes, tokened |-> tokened]
          @@ compute_score(outcomes)>>]

\* The score of a user in a task: the best score of the pool entries of the
\* submissions of that user for that task, 0 with none.
UserScore(p, u, t) ==
    LET mine == {s \in Subs : SubUser(s) = u /\ SubTask(s) = t /\ p[s] # <<>>}
    IN  IF mine = {} THEN 0 ELSE Max({p[s][1].score : s \in mine})

\* Contest.create_empty_ranking_view
create_empty_ranking_view == [u \in Users, t \in Tasks |-> 0]

\* Contest.update_ranking_view(scorers, task): the scores of one task.
update_ranking_view(view, p, task) ==
    [u \in Users, t \in Tasks |->
        IF t = task THEN UserScore(p, u, t) ELSE view[u, t]]

\* Submission.evaluated() and Submission.tokened()
evaluated(evs, s) == evs[s] # <<>>
tokened(s) == TokenTimestamp(s) # 0

\* The score fields of a submission without score.
NoScore == [score |-> <<>>, public_score |-> <<>>,
            score_details |-> <<>>, public_score_details |-> <<>>]

\* Submission.invalidate_score
invalidate_score(db, s) == [db EXCEPT ![s] = NoScore]

(***************************************************************************)
(* SessionGen.__exit__: the session is committed when it was opened with   *)
(* commit=True and rolled back otherwise; the exception the block raised   *)
(* (the three arguments of __exit__) is not looked at.                     *)
(***************************************************************************)
SessionExit(commit, raised, before, pending) ==
    IF commit THEN pending ELSE before

(***************************************************************************)
(* Operation queue entries: (method, args), with args[0] the ranking. n is *)
(* the serial number of the append, which tells equal entries apart.       *)
(***************************************************************************)
Entry(method, ranking, id, n) ==
    [method |-> method, ranking |-> ranking, id |-> id, n |-> n]

\* The append of initialize made for the first ranking only.
AppendInitialize_first_only(queue, rs, n) ==
    IF rs = <<>> THEN queue
    ELSE Append(queue, Entry("initialize", Head(rs), 0, n + 1))

\* for ranking in self.rankings: append (initialize, [ranking])
RECURSIVE AppendInitialize(_, _, _)
AppendInitialize(queue, rs, n) ==
    IF rs = <<>> THEN queue
    ELSE AppendInitialize(
             Append(queue, Entry("initialize", Head(rs), 0, n + 1)),
             Tail(rs), n + 1)

\* The two appends of the loop in the other order.
RECURSIVE AppendSubmission_change_first(_, _, _, _)
AppendSubmission_change_first(queue, rs, id, n) ==
    IF rs = <<>> THEN queue
    ELSE AppendSubmission_change_first(
             queue \o <<Entry("send_change", Head(rs), id, n + 1),
                        Entry("send_submission", Head(rs), id, n + 2)>>,
             Tail(rs), id, n + 2)

\* for ranking in self.rankings: append send_submission, then send_change
RECURSIVE AppendSubmission(_, _, _, _)
AppendSubmission(queue, rs, id, n) ==
    IF rs = <<>> THEN queue
    ELSE AppendSubmission(
             queue \o <<Entry("send_submission", Head(rs), id, n + 1),
                        Entry("send_change", Head(rs), id, n + 2)>>,
             Tail(rs), id, n + 2)

(***************************************************************************)
(* The state the RPC handlers work on, as one record, so that a handler    *)
(* can be applied several times in a row (score_old_submissions does).     *)
(***************************************************************************)
Cur ==
    [pool                   |-> pool,
     submission_ids_scored  |-> submission_ids_scored,
     submission_ids_tokened |-> submission_ids_tokened,
     sub_db                 |-> sub_db,
     ranking_view           |-> ranking_view,
     last_scored            |-> last_scored,
     operation_queue        |-> operation_queue,
     enqueued               |-> enqueued]

Install(S) ==
    /\ pool' = S.pool
    /\ submission_ids_scored' = S.submission_ids_scored
    /\ submission_ids_tokened' = S.submission_ids_tokened
    /\ sub_db' = S.sub_db
    /\ ranking_view' = S.ranking_view
    /\ last_scored' = S.last_scored
    /\ operation_queue' = S.operation_queue
    /\ enqueued' = S.enqueued

(***************************************************************************)
(* new_evaluation.  fault names the statement of the body that raises, in  *)
(* the order of the body; "none" is the call that returns.                 *)
(***************************************************************************)
FaultPoints == <<"scorer", "add_submission", "update_ranking_view",
                 "score_details", "public_score_details", "none">>
Faults == Range(FaultPoints)
Pos(f) == CHOOSE i \in 1..Len(FaultPoints) : FaultPoints[i] = f
\* The statement named step was executed to its end before the fault.
Done(fault, step) == Pos(fault) > Pos(step)

\* submission.score and submission.public_score merged with the old ones.
set_score_merge(db, id, entry) ==
    [db EXCEPT
        ![id].score = IF @ = <<>> THEN <<entry.score>>
                      ELSE <<@[1] + entry.score>>,
        ![id].public_score = <<entry.public_score>>]

\* submission.score = scorer.pool[id]["score"], and public_score likewise.
set_score(db, id, entry) ==
    [db EXCEPT ![id].score = <<entry.score>>,
               ![id].public_score = <<entry.public_score>>]

\* The record of a call of new_evaluation that returned: the evaluations it
\* scored, the score fields it left, and whether it is the first call with
\* these evaluations (times = 1) or a later one (times = 2).
Scored(last, evs, fields) ==
    <<[evaluations |-> evs, fields |-> fields,
       times |-> IF last # <<>> /\ last[1].evaluations = evs
                 THEN 2 ELSE 1]>>

new_evaluation(S, submission_id, fault) ==
    IF submission_id \notin Subs THEN S
    ELSE IF UserHidden(SubUser(submission_id)) THEN S
    ELSE
    LET id == submission_id
        scored == Done(fault, "add_submission")
        raised == fault # "none"
        ids1 == IF scored THEN S.submission_ids_scored \cup {id}
                ELSE S.submission_ids_scored
        Body(p1) ==
            LET view1 == IF Done(fault, "update_ranking_view")
                         THEN update_ranking_view(S.ranking_view, p1,
                                                  SubTask(id))
                         ELSE S.ranking_view
                db1 == IF Done(fault, "update_ranking_view")
                       THEN set_score(S.sub_db, id, p1[id][1])
                       ELSE S.sub_db
                db2 == IF Done(fault, "score_details")
                       THEN [db1 EXCEPT
                               ![id].score_details = <<p1[id][1].details>>]
                       ELSE db1
                db3 == IF Done(fault, "public_score_details")
                       THEN [db2 EXCEPT ![id].public_score_details =
                                            <<p1[id][1].public_details>>]
                       ELSE db2
                Leave(session) ==
                    [pool                   |-> p1,
                     submission_ids_scored  |-> ids1,
                     submission_ids_tokened |-> S.submission_ids_tokened,
                     sub_db                 |-> session.sub_db,
                     ranking_view           |-> session.ranking_view,
                     last_scored            |->
                         IF raised THEN S.last_scored
                         ELSE [S.last_scored EXCEPT ![id] =
                                  Scored(@, evaluations[id],
                                         session.sub_db[id])],
                     operation_queue        |->
                         IF raised THEN S.operation_queue
                         ELSE AppendSubmission(S.operation_queue, rankings,
                                               id, S.enqueued),
                     enqueued               |->
                         IF raised THEN S.enqueued
                         ELSE S.enqueued + 2 * Len(rankings)]
            IN  The({Leave(session) : session \in
                       {SessionExit(TRUE, raised,
                            [sub_db |-> S.sub_db,
                             ranking_view |-> S.ranking_view],
                            [sub_db |-> db3, ranking_view |-> view1])}})
    IN  The({Body(p1) : p1 \in
               {IF scored
                THEN add_submission(S.pool, id, evaluations[id], tokened(id))
                ELSE S.pool}})

\* submission_tokened without the test of submission.user.hidden.
submission_tokened_for_hidden(S, submission_id, timestamp) ==
    IF submission_id \notin Subs THEN S
    ELSE [S EXCEPT
            !.submission_ids_tokened = @ \cup {submission_id},
            !.operation_queue =
                AppendSubmission(@, rankings, submission_id, S.enqueued),
            !.enqueued = @ + 2 * Len(rankings)]

\* submission_tokened: KeyError for an id not in the database.
submission_tokened(S, submission_id, timestamp) ==
    IF submission_id \notin Subs THEN S
    ELSE IF UserHidden(SubUser(submission_id)) THEN S
    ELSE [S EXCEPT
            !.submission_ids_tokened = @ \cup {submission_id},
            !.operation_queue =
                AppendSubmission(@, rankings, submission_id, S.enqueued),
            !.enqueued = @ + 2 * Len(rankings)]

\* reinitialize: _initialize_scorers, then one initialize per ranking.
reinitialize(S) ==
    [S EXCEPT
        !.pool = [s \in Subs |-> <<>>],
        !.ranking_view = create_empty_ranking_view,
        !.operation_queue = AppendInitialize(@, rankings, S.enqueued),
        !.enqueued = @ + Len(rankings)]

(***************************************************************************)
(* Sending to a ranking.                                                   *)
(***************************************************************************)
\* safe_put_data that takes every 2xx status for a success.
safe_put_data_2xx(status) == status \in {200, 201, 204}

\* safe_put_data returns (TRUE) or raises CannotSendError (FALSE).
safe_put_data(status) == status \in {200, 201}

\* The requests one call of the method of an entry sends: initialize sends
\* the contest, the users and the tasks, send_submission and send_change
\* one PUT.
Requests(e) == IF e.method = "initialize" THEN 1..3 ELSE 1..1
Responses(e) == [Requests(e) -> Statuses]

\* method(*args) returns: every safe_put_data of the call returned.
Returns(e, resp) == \A i \in Requests(e) : safe_put_data(resp[i])

\* The reactor that starts a handler while another one is running.
HandlerMayRun_reentrant == TRUE

(***************************************************************************)
(* The reactor of the service runs one handler at a time, to its end: an   *)
(* RPC or a timeout starts only when no handler is running.                *)
(***************************************************************************)
HandlerMayRun == pc = "idle"

(***************************************************************************)
(* dispatch_operations, one step per entry of the for loop.                *)
(***************************************************************************)
\* failed_rankings = set([]); new_queue = []
dispatch_begin ==
    /\ HandlerMayRun
    /\ pc' = "dispatch"
    /\ queue_pos' = 1
    /\ new_queue' = <<>>
    /\ failed_rankings' = {}
    /\ attempts' = <<>>
    /\ UNCHANGED <<rankings, operation_queue, accepting, enqueued, delivered,
                   resync>>
    /\ UNCHANGED <<score_vars, backlog_vars, worker_vars, admin_vars>>

\* No ranking was sent anything since the (re)initialization that begins.
NothingSent == [r \in AllRankings |-> {}]

\* The (method, id) of entry e recorded as sent to its ranking when its call
\* returned.
Delivery(h, e, returned) ==
    IF returned THEN [h EXCEPT ![e.ranking] = @ \cup {<<e.method, e.id>>}]
    ELSE h

\* The record of one call method(*args) and of whether it returned.
Attempt(e, ok) == [n |-> e.n, ranking |-> e.ranking, ok |-> ok]

\* dispatch_entry that forgets the entry whose call raised.
dispatch_entry_drop(L, e, ok) ==
    IF e.ranking \in L.failed_rankings
    THEN [L EXCEPT !.new_queue = Append(@, e)]
    ELSE IF ok
    THEN [L EXCEPT !.delivered[e.ranking] = Append(@, e.n),
                   !.attempts = Append(@, Attempt(e, TRUE))]
    ELSE [L EXCEPT !.failed_rankings = @ \cup {e.ranking},
                   !.attempts = Append(@, Attempt(e, FALSE))]

\* dispatch_entry that calls the method whatever failed before.
dispatch_entry_noskip(L, e, ok) ==
    IF ok
    THEN [L EXCEPT !.delivered[e.ranking] = Append(@, e.n),
                   !.attempts = Append(@, Attempt(e, TRUE))]
    ELSE [L EXCEPT !.new_queue = Append(@, e),
                   !.failed_rankings = @ \cup {e.ranking},
                   !.attempts = Append(@, Attempt(e, FALSE))]

\* dispatch_entry that stops calling at the first failure of any ranking.
dispatch_entry_block(L, e, ok) ==
    IF L.failed_rankings # {}
    THEN [L EXCEPT !.new_queue = Append(@, e)]
    ELSE IF ok
    THEN [L EXCEPT !.delivered[e.ranking] = Append(@, e.n),
                   !.attempts = Append(@, Attempt(e, TRUE))]
    ELSE [L EXCEPT !.new_queue = Append(@, e),
                   !.failed_rankings = @ \cup {e.ranking},
                   !.attempts = Append(@, Attempt(e, FALSE))]

\* The body of the for loop on entry e; ok tells whether method(*args)
\* returns when it is called.
dispatch_entry(L, e, ok) ==
    IF e.ranking \in L.failed_rankings
    THEN [L EXCEPT !.new_queue = Append(@, e)]
    ELSE IF ok
    THEN [L EXCEPT !.delivered[e.ranking] = Append(@, e.n),
                   !.attempts = Append(@, Attempt(e, TRUE))]
    ELSE [L EXCEPT !.new_queue = Append(@, e),
                   !.failed_rankings = @ \cup {e.ranking},
                   !.attempts = Append(@, Attempt(e, FALSE))]

dispatch_step ==
    /\ pc = "dispatch"
    /\ queue_pos <= Len(operation_queue)
    /\ LET e == operation_queue[queue_pos]
           L == [new_queue |-> new_queue, failed_rankings |-> failed_rankings,
                 delivered |-> delivered, attempts |-> attempts]
       IN  \E resp \in Responses(e) :
             /\ e.ranking \in accepting => Returns(e, resp)
             /\ LET M == dispatch_entry(L, e, Returns(e, resp))
                IN  /\ new_queue' = M.new_queue
                    /\ failed_rankings' = M.failed_rankings
                    /\ delivered' = M.delivered
                    /\ attempts' = M.attempts
                    /\ resync' = Delivery(resync, e,
                                          M.delivered # delivered)
    /\ queue_pos' = queue_pos + 1
    /\ UNCHANGED <<rankings, operation_queue, pc, accepting, enqueued>>
    /\ UNCHANGED <<score_vars, backlog_vars, worker_vars, admin_vars>>

\* self.operation_queue = new_queue; return True
dispatch_end ==
    /\ pc = "dispatch"
    /\ queue_pos > Len(operation_queue)
    /\ operation_queue' = new_queue
    /\ pc' = "idle"
    /\ queue_pos' = 0
    /\ new_queue' = <<>>
    /\ failed_rankings' = {}
    /\ attempts' = <<>>
    /\ UNCHANGED <<rankings, accepting, enqueued, delivered, resync>>
    /\ UNCHANGED <<score_vars, backlog_vars, worker_vars, admin_vars>>

\* A ranking comes up for good: it accepts every request from now on.
ranking_recovers ==
    /\ \E r \in Range(rankings) \ accepting : accepting' = accepting \cup {r}
    /\ UNCHANGED <<rankings, operation_queue, pc, queue_pos, new_queue,
                   failed_rankings, enqueued, delivered, attempts, resync>>
    /\ UNCHANGED <<score_vars, backlog_vars, worker_vars, admin_vars>>

(***************************************************************************)
(* The RPC handlers as actions.                                            *)
(***************************************************************************)
HandlerFrame ==
    UNCHANGED <<rankings, pc, queue_pos, new_queue, failed_rankings,
                accepting, delivered, attempts, evaluations, worker_vars,
                admin_vars>>

rpc_new_evaluation(submission_id, fault) ==
    /\ HandlerMayRun
    /\ enqueued + 2 * Len(rankings) <= MaxOps
    /\ Install(new_evaluation(Cur, submission_id, fault))
    /\ HandlerFrame
    /\ UNCHANGED resync
    /\ UNCHANGED backlog_vars

rpc_submission_tokened(submission_id, timestamp) ==
    /\ HandlerMayRun
    /\ enqueued + 2 * Len(rankings) <= MaxOps
    /\ Install(submission_tokened(Cur, submission_id, timestamp))
    /\ HandlerFrame
    /\ UNCHANGED resync
    /\ UNCHANGED backlog_vars

rpc_reinitialize ==
    /\ HandlerMayRun
    /\ enqueued + Len(rankings) <= MaxOps
    /\ Install(reinitialize(Cur))
    /\ HandlerFrame
    /\ resync' = NothingSent
    /\ UNCHANGED backlog_vars

(***************************************************************************)
(* The worker before its first job: TaskType.__init__.                     *)
(***************************************************************************)
NoCall == [op |-> "none", args |-> <<>>, ret |-> <<>>]
\* self.result = {}: a key that is not set is <<>>, a key set to v is <<v>>.
NoResult == [success |-> <<>>, executables |-> <<>>, evaluations |-> <<>>]
NoJob == [success |-> <<>>, compilation_success |-> <<>>, outcome |-> <<>>,
          text |-> <<>>, user_output |-> <<>>, executables |-> {}]

InitWorker ==
    /\ wpc = "idle"
    /\ call = NoCall
    /\ result = NoResult
    /\ ignore_job = FALSE
    /\ tested = <<>>
    /\ job = NoJob
    /\ sandboxes = <<>>

(***************************************************************************)
(* The state after __init__, for a list rs of configured rankings and the  *)
(* evaluations evs found in the database.                                  *)
(***************************************************************************)
InitService(rs, evs) ==
    /\ rankings = rs
    /\ operation_queue = AppendInitialize(<<>>, rs, 0)
    /\ enqueued = Len(rs)
    /\ pc = "idle"
    /\ queue_pos = 0
    /\ new_queue = <<>>
    /\ failed_rankings = {}
    /\ accepting = {}
    /\ delivered = [r \in AllRankings |-> <<>>]
    /\ attempts = <<>>
    /\ resync = NothingSent
    /\ pool = [s \in Subs |-> <<>>]
    /\ submission_ids_scored = {}
    /\ submission_ids_tokened = {}
    /\ evaluations = evs
    /\ sub_db = [s \in Subs |-> NoScore]
    /\ ranking_view = create_empty_ranking_view
    /\ last_scored = [s \in Subs |-> <<>>]
    /\ submission_ids_to_score = <<>>
    /\ submission_ids_to_token = <<>>
    /\ armed = 0
    /\ catchup = [s |-> 0, t |-> 0, calls |-> <<>>, watch |-> 0,
                  rescored |-> FALSE, passed |-> {}]
    /\ InitWorker
    /\ task_db = [t \in TaskIds |-> Unassigned]

(***************************************************************************)
(* Spec: the service with two rankings, the RPCs and the dispatch of the   *)
(* operation queue.                                                        *)
(***************************************************************************)
Init == InitService(<<"A", "B">>, [s \in Subs |-> <<1, 0>>])

Next ==
    \/ dispatch_begin
    \/ dispatch_step
    \/ dispatch_end
    \/ ranking_recovers
    \/ \E id \in Ids : rpc_new_evaluation(id, "none")
    \/ \E id \in Ids : rpc_submission_tokened(id, TokenTimestamp(id))
    \/ rpc_reinitialize

Spec == Init /\ [][Next]_vars

\* dispatch_operations is armed at start and returns True: it runs forever.
FairSpec ==
    /\ Spec
    /\ WF_vars(dispatch_begin)
    /\ WF_vars(dispatch_step)
    /\ WF_vars(dispatch_end)

(***************************************************************************)
(* The two RPCs that append to the queue, each call recorded with what it  *)
(* appended and whether it left the service as it was.                     *)
(***************************************************************************)
\* What a handler that took the service from S to T did.
Effect(S, T, raised) ==
    [appended |-> SubSeq(T.operation_queue, Len(S.operation_queue) + 1,
                         Len(T.operation_queue)),
     kept |-> SubSeq(T.operation_queue, 1, Len(S.operation_queue))
                  = S.operation_queue,
     unchanged |->
         /\ T.operation_queue = S.operation_queue
         /\ T.submission_ids_scored = S.submission_ids_scored
         /\ T.submission_ids_tokened = S.submission_ids_tokened
         /\ T.pool = S.pool,
     raised |-> raised]

CallFrame ==
    /\ UNCHANGED <<rankings, pc, queue_pos, new_queue, failed_rankings,
                   accepting, delivered, attempts, evaluations, resync>>
    /\ UNCHANGED <<wpc, result, ignore_job, tested, job, sandboxes>>
    /\ UNCHANGED <<backlog_vars, admin_vars>>

call_new_evaluation ==
    /\ HandlerMayRun
    /\ enqueued + 2 * Len(rankings) <= MaxOps
    /\ \E submission_id \in Ids, fault \in Faults :
         LET T == new_evaluation(Cur, submission_id, fault)
         IN  /\ Install(T)
             /\ call' = [op |-> "new_evaluation",
                         args |-> [submission_id |-> submission_id],
                         ret |-> Effect(Cur, T,
                                        /\ submission_id \in Subs
                                        /\ ~UserHidden(SubUser(submission_id))
                                        /\ fault # "none")]
    /\ CallFrame

call_submission_tokened ==
    /\ HandlerMayRun
    /\ enqueued + 2 * Len(rankings) <= MaxOps
    /\ \E submission_id \in Ids :
         LET T == submission_tokened(Cur, submission_id,
                                     TokenTimestamp(submission_id))
         IN  /\ Install(T)
             /\ call' = [op |-> "submission_tokened",
                         args |-> [submission_id |-> submission_id],
                         ret |-> Effect(Cur, T, submission_id \notin Subs)]
    /\ CallFrame

NextHandlers ==
    \/ dispatch_begin
    \/ dispatch_step
    \/ dispatch_end
    \/ call_new_evaluation
    \/ call_submission_tokened

SpecHandlers == Init /\ [][NextHandlers]_vars


(***************************************************************************)
(* The backlog of the submissions left without score or token.             *)
(***************************************************************************)
\* The ids of a set, in the order the database returns them (by id).
RECURSIVE Sorted(_)
Sorted(S) ==
    IF S = {} THEN <<>>
    ELSE LET m == CHOOSE x \in S : \A y \in S : x <= y
         IN  <<m>> \o Sorted(S \ {m})

WithTimestamp(q) == [i \in 1..Len(q) |-> <<q[i], TokenTimestamp(q[i])>>]

Min(a, b) == IF a < b THEN a ELSE b

\* cms.service.get_submissions: the ids of the submissions of the contest
\* that match; 0 and "None" stand for an argument left to None.
get_submissions(submission_id, user_id, task_id) ==
    Sorted({s \in Subs :
              /\ submission_id = 0 \/ s = submission_id
              /\ user_id = "None" \/ SubUser(s) = user_id
              /\ task_id = "None" \/ SubTask(s) = task_id})

\* The arguments invalidate_submission is called with.
InvalidateArgs ==
    {<<0, "None", "None">>, <<MissingId, "None", "None">>}

\* add_timeout(self.score_old_submissions, None, 0.5, immediately=False)
add_timeout(n) == n + 1

\* if old_s + old_t == 0: self.add_timeout(self.score_old_submissions, ...)
ArmIfIdle(old_s, old_t, n) ==
    IF old_s + old_t = 0 THEN add_timeout(n) ELSE n

search_jobs_not_done ==
    /\ HandlerMayRun
    /\ LET new_to_score ==
               Sorted({s \in Subs : /\ evaluated(evaluations, s)
                                    /\ s \notin submission_ids_scored})
           new_to_token ==
               WithTimestamp(Sorted({s \in Subs :
                                       /\ tokened(s)
                                       /\ s \notin submission_ids_tokened}))
           new_s == Len(new_to_score)
           old_s == Len(submission_ids_to_score)
           new_t == Len(new_to_token)
           old_t == Len(submission_ids_to_token)
       IN  /\ old_s + new_s <= MaxBacklog
           /\ old_t + new_t <= MaxTokenBacklog
           /\ IF new_s + new_t > 0
              THEN /\ submission_ids_to_score' =
                          new_to_score \o submission_ids_to_score
                   /\ submission_ids_to_token' =
                          new_to_token \o submission_ids_to_token
                   /\ armed' = ArmIfIdle(old_s, old_t, armed)
                   /\ catchup' = [s |-> old_s + new_s, t |-> old_t + new_t,
                                  calls |-> <<>>, watch |-> catchup.watch,
                                  rescored |-> catchup.rescored,
                                  passed |-> catchup.passed]
              ELSE UNCHANGED backlog_vars
    /\ UNCHANGED <<queue_vars, score_vars, worker_vars, admin_vars>>

\* for unused_i in xrange(k): new_evaluation(list[-1]); del list[-1]
RECURSIVE ScoreLast(_, _, _)
ScoreLast(S, ids, k) ==
    IF k = 0 THEN S
    ELSE The({new_evaluation(T, ids[Len(ids) - k + 1], "none") :
                 T \in {ScoreLast(S, ids, k - 1)}})

\* for unused_i in xrange(k): submission_tokened(*list[-1]); del list[-1]
RECURSIVE TokenLast(_, _, _)
TokenLast(S, ids, k) ==
    IF k = 0 THEN S
    ELSE The({submission_tokened(T, ids[Len(ids) - k + 1][1],
                                    ids[Len(ids) - k + 1][2]) :
                 T \in {TokenLast(S, ids, k - 1)}})

\* score_old_submissions that scores the whole list in one call.
ToScoreNow_all(to_score) == to_score

\* to_score_now = to_score if to_score < 4 else 4
ToScoreNow(to_score) == IF to_score < ScoreCap THEN to_score ELSE ScoreCap
\* to_token_now = to_token if to_token < 16 else 16
ToTokenNow(to_token) == IF to_token < TokenCap THEN to_token ELSE TokenCap

\* score_old_submissions that asks to run again only for ids to score.
Rearm_score_only(score_left, token_left) == score_left > 0

\* The value score_old_submissions returns: True to be called again.
Rearm(score_left, token_left) == score_left > 0 \/ token_left > 0

\* One call of score_old_submissions by its timeout, which stays alive when
\* the call returns True and is dropped when it returns False.
score_old_submissions ==
    /\ HandlerMayRun
    /\ armed > 0
    /\ LET to_score == Len(submission_ids_to_score)
           to_token == Len(submission_ids_to_token)
           to_score_now == ToScoreNow(to_score)
           to_token_now ==
               IF to_score - to_score_now > 0 THEN 0 ELSE ToTokenNow(to_token)
       IN  /\ \E S2 \in {TokenLast(ScoreLast(Cur, submission_ids_to_score,
                                             to_score_now),
                                   submission_ids_to_token, to_token_now)} :
                  /\ S2.enqueued <= MaxOps
                  /\ Install(S2)
           /\ submission_ids_to_score' =
                  Front(submission_ids_to_score, to_score_now)
           /\ submission_ids_to_token' =
                  Front(submission_ids_to_token, to_token_now)
           /\ armed' = IF Rearm(to_score - to_score_now,
                                to_token - to_token_now)
                       THEN armed ELSE armed - 1
           /\ catchup' = [catchup EXCEPT
                             !.calls = Append(@, to_score_now),
                             !.watch = IF @ > to_score_now
                                       THEN @ - to_score_now ELSE 0,
                             !.rescored = IF catchup.watch > 0
                                          THEN catchup.watch <= to_score_now
                                          ELSE @,
                             !.passed =
                                 @ \cup {submission_ids_to_score[i] :
                                           i \in (to_score - to_score_now + 1)
                                                   ..to_score}]
    /\ HandlerFrame
    /\ UNCHANGED resync

\* invalidate_submission that leaves the arming to the next scan.
ArmAfterInvalidate_never(old_s, old_t, n) == n

ArmAfterInvalidate(old_s, old_t, n) == ArmIfIdle(old_s, old_t, n)

rpc_invalidate_submission(submission_id, user_id, task_id) ==
    /\ HandlerMayRun
    /\ LET submission_ids == get_submissions(submission_id, user_id, task_id)
           old_s == Len(submission_ids_to_score)
           old_t == Len(submission_ids_to_token)
       IN  /\ old_s + Len(submission_ids) <= MaxBacklog
           /\ IF Len(submission_ids) = 0
              THEN UNCHANGED <<sub_db, backlog_vars>>
              ELSE /\ sub_db' = [s \in Subs |->
                                   IF s \in Range(submission_ids)
                                   THEN invalidate_score(sub_db, s)[s]
                                   ELSE sub_db[s]]
                   /\ submission_ids_to_score' =
                          submission_ids \o submission_ids_to_score
                   /\ armed' = ArmAfterInvalidate(old_s, old_t, armed)
                   /\ catchup' =
                          [s |-> old_s + Len(submission_ids),
                           t |-> old_t, calls |-> <<>>,
                           watch |-> IF catchup.watch = 0
                                     THEN old_s + Len(submission_ids)
                                     ELSE catchup.watch,
                           rescored |-> FALSE,
                           passed |-> catchup.passed
                                          \ Range(submission_ids)]
                   /\ UNCHANGED submission_ids_to_token
    /\ UNCHANGED <<pool, submission_ids_scored, submission_ids_tokened,
                   evaluations, ranking_view, last_scored>>
    /\ UNCHANGED <<queue_vars, worker_vars, admin_vars>>

\* The evaluation service stores new outcomes for a submission.
evaluation_changes(s, outcomes) ==
    /\ evaluations[s] # outcomes
    /\ evaluations' = [evaluations EXCEPT ![s] = outcomes]
    /\ UNCHANGED <<pool, submission_ids_scored, submission_ids_tokened,
                   sub_db, ranking_view, last_scored>>
    /\ UNCHANGED <<queue_vars, backlog_vars, worker_vars, admin_vars>>

(***************************************************************************)
(* SpecScore: the ingestion of evaluations, with the faults of             *)
(* new_evaluation, for a service without ranking.                          *)
(***************************************************************************)
InitScore == InitService(<<>>, [s \in Subs |-> <<1, 0>>])

NextScore ==
    \/ \E id \in Ids, fault \in Faults : rpc_new_evaluation(id, fault)
    \/ \E s \in Visible, outcomes \in OutcomeLists :
           evaluation_changes(s, outcomes)
    \/ rpc_reinitialize

SpecScore == InitScore /\ [][NextScore]_vars

(***************************************************************************)
(* SpecBacklog: the scan for the jobs not done, the invalidations and the  *)
(* catch-up, for a service without ranking.                                *)
(***************************************************************************)
InitBacklog == InitService(<<>>, [s \in Subs |-> <<1, 0>>])

NextBacklog ==
    \/ search_jobs_not_done
    \/ score_old_submissions
    \/ \E a \in InvalidateArgs : rpc_invalidate_submission(a[1], a[2], a[3])

SpecBacklog == InitBacklog /\ [][NextBacklog]_vars

\* The catch-up alone: the set of evaluated submissions is fixed and no
\* score is invalidated.
NextCatchup ==
    \/ search_jobs_not_done
    \/ score_old_submissions

SpecCatchup == InitBacklog /\ [][NextCatchup]_vars

\* The timeout of score_old_submissions fires again and again while alive.
FairSpecCatchup == SpecCatchup /\ WF_vars(score_old_submissions)

\* The timeout of score_old_submissions fires again and again while alive.
FairSpecBacklog == SpecBacklog /\ WF_vars(score_old_submissions)

(***************************************************************************)
(* The grading steps of TaskType.  A run of a command in a sandbox is a    *)
(* record: ran (execute_without_std returned True), the exit status and    *)
(* code, the killing signal, the offending syscall and file, and the first *)
(* lines of the two streams the command wrote.                             *)
(***************************************************************************)
\* Sandbox.EXIT_*
ExitStatuses ==
    {"ok", "timeout", "signal", "sandbox error", "syscall", "file access"}
ExitCodes == {0, 1}
Signals == {9, 11}
Syscalls == {"fork", "socket"}
Paths == {"/etc/passwd", "/proc/cpuinfo"}

\* A float is the integer number of its tenths: One is 1.0.
One == 10
\* The largest outcome of a testcase.
task_max_outcome == One

\* A line that is not valid UTF-8.
Undecodable == <<"\\xff">>
\* First lines of the standard output of a manager or checker.
StdoutLines ==
    {<<"1", ".", "0", "\n">>, <<"0", ".", "5">>, <<"2", ".", "0">>,
     <<"-", "1", ".", "0">>, <<"a", "b", "c">>, <<>>, Undecodable}
\* First lines of its standard error.
StderrLines ==
    {<<"o", "k">>, <<"\\033", "[", "1", "m", "o", "k">>, Undecodable}

Runs ==
    [ran : BOOLEAN, exit_status : ExitStatuses, exit_code : ExitCodes,
     signal : Signals, syscall : Syscalls, path : Paths,
     stdout : StdoutLines, stderr : StderrLines]

\* filter_ansi_escape: the characters from ESC to the next m are dropped.
RECURSIVE filter_ansi(_, _)
filter_ansi(string, ansi_mode) ==
    IF string = <<>> THEN <<>>
    ELSE LET char == Head(string)
             mode == ansi_mode \/ char = "\\033"
         IN  (IF mode THEN <<>> ELSE <<char>>)
             \o filter_ansi(Tail(string), mode /\ char # "m")
filter_ansi_escape(string) == filter_ansi(string, FALSE)

\* str.strip() of a line
RECURSIVE strip(_)
strip(line) ==
    IF line # <<>> /\ Head(line) \in {" ", "\n"} THEN strip(Tail(line))
    ELSE IF line # <<>> /\ line[Len(line)] \in {" ", "\n"}
    THEN strip(Front(line, 1))
    ELSE line

\* float(outcome): <<>> for ValueError, <<v>> for the float v.
float(outcome) ==
    IF outcome = <<"1", ".", "0">> THEN <<One>>
    ELSE IF outcome = <<"0", ".", "5">> THEN <<One \div 2>>
    ELSE IF outcome = <<"2", ".", "0">> THEN <<2 * One>>
    ELSE IF outcome = <<"-", "1", ".", "0">> THEN <<0 - One>>
    ELSE IF outcome = <<"0", ".", "0">> THEN <<0>>
    ELSE <<>>

\* A checker whose unparsable output counts as outcome 0.0.
extract_outcome_and_text_default(stdout, stderr) ==
    IF stdout = Undecodable \/ stderr = Undecodable
       \/ float(strip(stdout)) = <<>>
    THEN [raised |-> FALSE, outcome |-> <<0>>,
          text |-> <<<<"w", "r", "o", "n", "g">>>>]
    ELSE [raised |-> FALSE, outcome |-> float(strip(stdout)),
          text |-> <<filter_ansi_escape(stderr)>>]

\* extract_outcome_and_text: raised stands for ValueError.
extract_outcome_and_text(stdout, stderr) ==
    IF stdout = Undecodable \/ stderr = Undecodable
       \/ float(strip(stdout)) = <<>>
    THEN [raised |-> TRUE, outcome |-> <<>>, text |-> <<>>]
    ELSE [raised |-> FALSE, outcome |-> float(strip(stdout)),
          text |-> <<filter_ansi_escape(stderr)>>]

\* TaskType.compilation_step: what it returns and what it leaves in
\* self.result.
compilation_step(res, box, executables_to_store) ==
    LET Ret(success, compilation_success, text) ==
            [success |-> success, compilation_success |-> compilation_success,
             outcome |-> <<>>, text |-> text,
             tuple |-> <<success, compilation_success, text>>]
    IN  IF ~box.ran
        THEN [ret |-> [Ret(FALSE, <<>>, <<>>) EXCEPT
                           !.tuple = <<FALSE, <<>>, <<>>, <<>>>>],
              result |-> res]
        ELSE IF box.exit_status = "ok" /\ box.exit_code = 0
        THEN [ret |-> Ret(TRUE, <<TRUE>>, <<<<"OK">>>>),
              result |-> [res EXCEPT !.executables = <<executables_to_store>>]]
        ELSE IF box.exit_status = "ok" /\ box.exit_code # 0
        THEN [ret |-> Ret(TRUE, <<FALSE>>, <<<<"Failed">>>>), result |-> res]
        ELSE IF box.exit_status = "timeout"
        THEN [ret |-> Ret(TRUE, <<FALSE>>, <<<<"Time out">>>>), result |-> res]
        ELSE IF box.exit_status = "signal"
        THEN [ret |-> Ret(TRUE, <<FALSE>>,
                          <<<<"Killed with signal", box.signal>>>>),
              result |-> res]
        ELSE [ret |-> Ret(FALSE, <<>>, <<>>), result |-> res]

\* What a step returns: (success, outcome, text), None being <<>>.
StepReturn(success, outcome, text) ==
    [success |-> success, compilation_success |-> <<>>,
     outcome |-> outcome, text |-> text]

\* evaluation_step_after_run that takes every exit status but OK for a
\* failure of the sandbox.
evaluation_step_after_run_abort(box, final) ==
    IF box.exit_status # "ok"
    THEN StepReturn(FALSE, <<>>, <<>>)
    ELSE IF ~final
    THEN StepReturn(TRUE, <<>>, <<>>)
    ELSE LET manager == extract_outcome_and_text(box.stdout, box.stderr)
         IN  IF manager.raised THEN StepReturn(FALSE, <<>>, <<>>)
             ELSE StepReturn(TRUE, manager.outcome, manager.text)

\* TaskType.evaluation_step_after_run
evaluation_step_after_run(box, final) ==
    IF box.exit_status = "timeout"
    THEN StepReturn(TRUE, <<0>>, <<<<"Execution timed out.">>>>)
    ELSE IF box.exit_status = "signal"
    THEN StepReturn(TRUE, <<0>>,
                    <<<<"Execution killed with signal", box.signal>>>>)
    ELSE IF box.exit_status = "sandbox error"
    THEN StepReturn(FALSE, <<>>, <<>>)
    ELSE IF box.exit_status = "syscall"
    THEN StepReturn(TRUE, <<0>>,
                    <<<<"Execution killed because of forbidden syscall",
                        box.syscall>>>>)
    ELSE IF box.exit_status = "file access"
    THEN StepReturn(TRUE, <<0>>,
                    <<<<"Execution killed because of forbidden file access.">>>>)
    ELSE IF box.exit_status # "ok"
    THEN StepReturn(FALSE, <<>>, <<>>)
    ELSE IF ~final
    THEN StepReturn(TRUE, <<>>, <<>>)
    ELSE LET manager == extract_outcome_and_text(box.stdout, box.stderr)
         IN  IF manager.raised THEN StepReturn(FALSE, <<>>, <<>>)
             ELSE StepReturn(TRUE, manager.outcome, manager.text)

\* TaskType.evaluation_step: evaluation_step_before_run(wait=True) returns
\* what execute_without_std returned.
evaluation_step(box, final) ==
    IF ~box.ran THEN StepReturn(FALSE, <<>>, <<>>)
    ELSE evaluation_step_after_run(box, final)

\* The worker takes one job: no call was made yet.
WorkerIdle == wpc = "idle" /\ call = NoCall

\* The variables a call of a step leaves alone.
StepFrame ==
    /\ UNCHANGED <<wpc, ignore_job, tested, job, sandboxes>>
    /\ UNCHANGED <<queue_vars, score_vars, backlog_vars, admin_vars>>

\* One call of compilation_step of a new TaskType object, the command
\* building the executable "a.out".
call_compilation_step ==
    /\ WorkerIdle
    /\ \E box \in Runs :
         LET r == compilation_step(NoResult, box, {"a.out"})
         IN  /\ call' = [op |-> "compilation_step",
                         args |-> [box |-> box, final |-> FALSE],
                         ret |-> r.ret]
             /\ result' = r.result
    /\ StepFrame

\* One call of evaluation_step.
call_evaluation_step ==
    /\ WorkerIdle
    /\ \E box \in Runs, final \in BOOLEAN :
         /\ call' = [op |-> "evaluation_step",
                     args |-> [box |-> box, final |-> final],
                     ret |-> evaluation_step(box, final)]
         /\ result' = NoResult
    /\ StepFrame

\* One call of evaluation_step_after_run, for a command that was run.
call_evaluation_step_after_run ==
    /\ WorkerIdle
    /\ \E box \in {b \in Runs : b.ran}, final \in BOOLEAN :
         /\ call' = [op |-> "evaluation_step_after_run",
                     args |-> [box |-> box, final |-> final],
                     ret |-> evaluation_step_after_run(box, final)]
         /\ result' = NoResult
    /\ StepFrame

(***************************************************************************)
(* Batch and OutputOnly: compile and evaluate of one job.                  *)
(***************************************************************************)
\* A command that ran and exited normally with code 0, writing nothing.
OkRun ==
    [ran |-> TRUE, exit_status |-> "ok", exit_code |-> 0, signal |-> 9,
     syscall |-> "fork", path |-> "/etc/passwd", stdout |-> <<>>,
     stderr |-> <<"o", "k">>]
\* Runs of the program of the contestant: what it wrote plays no part.
UserRuns ==
    {b \in Runs : /\ b.exit_code = 0 /\ b.path = "/etc/passwd"
                  /\ b.stdout = <<>> /\ b.stderr = <<"o", "k">>}
\* Runs of a compiler.
CompilerRuns ==
    {b \in Runs : /\ b.signal = 9 /\ b.syscall = "fork"
                  /\ b.path = "/etc/passwd"
                  /\ b.stdout = <<>> /\ b.stderr = <<"o", "k">>}
\* Runs of a comparator: how it was stopped plays no part.
CheckerRuns ==
    {b \in Runs : /\ b.exit_code = 0 /\ b.signal = 9 /\ b.syscall = "fork"
                  /\ b.path = "/etc/passwd"}

\* "%s" % outcome
str(outcome) ==
    IF outcome = One THEN <<"1", ".", "0">>
    ELSE IF outcome = One \div 2 THEN <<"0", ".", "5">>
    ELSE IF outcome = 2 * One THEN <<"2", ".", "0">>
    ELSE IF outcome = 0 - One THEN <<"-", "1", ".", "0">>
    ELSE <<"0", ".", "0">>

\* cms.grading.compilation_step: (operation_success, compilation_success).
grading_compilation_step(box) ==
    [success |-> box.ran /\ box.exit_status # "sandbox error",
     compilation_success |->
         box.ran /\ box.exit_status = "ok" /\ box.exit_code = 0,
     text |-> IF ~box.ran \/ box.exit_status = "sandbox error" THEN <<>>
              ELSE IF box.exit_status = "ok" /\ box.exit_code = 0
              THEN <<"Compilation succeeded">>
              ELSE <<"Compilation failed">>]

\* cms.grading.evaluation_step: success of the run of the commands.
grading_evaluation_step(box) ==
    box.ran /\ box.exit_status # "sandbox error"

\* cms.grading.is_evaluation_passed
is_evaluation_passed(box) == box.exit_status = "ok"

\* cms.grading.human_evaluation_message
human_evaluation_message(box) ==
    IF box.exit_status = "timeout" THEN <<"Execution timed out">>
    ELSE IF box.exit_status = "signal"
    THEN <<"Execution killed by signal", box.signal>>
    ELSE IF box.exit_status \in {"syscall", "file access"}
    THEN <<"Execution killed (could be triggered by violating memory limits)">>
    ELSE <<>>

\* white_diff_step: the outcome and the text for an output file that is
\* there, same telling whether white_diff finds it equal to the correct one.
white_diff_step(exists, same) ==
    IF exists
    THEN IF same
         THEN [outcome |-> <<One>>, text |-> <<"Output is correct">>]
         ELSE [outcome |-> <<0>>, text |-> <<"Output isn't correct">>]
    ELSE [outcome |-> <<0>>,
          text |-> <<"Evaluation didn't produce file %s", "output.txt">>]

\* cms.grading.checker_step: (success, outcome, text) of a comparator run
\* on an output file.
checker_step(has_checker, box) ==
    IF ~has_checker \/ ~grading_evaluation_step(box)
    THEN StepReturn(FALSE, <<>>, <<>>)
    ELSE LET checker == extract_outcome_and_text(box.stdout, box.stderr)
         IN  IF checker.raised THEN StepReturn(FALSE, <<>>, <<>>)
             ELSE StepReturn(TRUE, checker.outcome, checker.text)

\* create_sandbox returned a sandbox.
Live(name) == [name |-> name, state |-> "live"]
\* delete_sandbox was called on it.
Deleted(name) == [name |-> name, state |-> "deleted"]

\* How a method ends: the job, the sandboxes, and the exception it raised,
\* "" when it returned.
Ends(j, boxes, raised) == [job |-> j, sandboxes |-> boxes, raised |-> raised]

\* The name of a file is its base name and its extension.
\* Batch.compile with the grader after the source of the contestant.
source_filenames_grader_last(format_filename, source_ext, uses_grader) ==
    <<<<format_filename, source_ext>>>>
    \o (IF uses_grader THEN <<<<"grader", source_ext>>>> ELSE <<>>)

\* Batch.compile: the sources given to the compiler, the source of the
\* contestant and, inserted at place 0, the grader.
source_filenames(format_filename, source_ext, uses_grader) ==
    (IF uses_grader THEN <<<<"grader", source_ext>>>> ELSE <<>>)
    \o <<<<format_filename, source_ext>>>>

\* Batch.compile: the sources it calls the compiler with, none when it
\* returns before.
Batch_compile_sources(in) ==
    IF in.files # 1 THEN <<>>
    ELSE source_filenames("sol", ".cpp", in.grader)

\* Batch.compile storing the executable whenever the step itself succeeded.
Batch_compile_stores_failed(j, in) ==
    IF in.files # 1
    THEN Ends([j EXCEPT !.success = <<TRUE>>,
                        !.compilation_success = <<FALSE>>,
                        !.text = <<"Invalid files in submission">>],
              <<>>, "")
    ELSE LET step == grading_compilation_step(in.user)
             done == [j EXCEPT !.success = <<step.success>>,
                               !.compilation_success =
                                   <<step.compilation_success>>,
                               !.text = step.text]
         IN  IF step.success
             THEN Ends([done EXCEPT !.executables = {"a.out"}],
                       <<Deleted("compile")>>, "")
             ELSE Ends(done, <<Deleted("compile")>>, "")

\* Batch.compile
Batch_compile(j, in) ==
    IF in.files # 1
    THEN Ends([j EXCEPT !.success = <<TRUE>>,
                        !.compilation_success = <<FALSE>>,
                        !.text = <<"Invalid files in submission">>],
              <<>>, "")
    ELSE LET step == grading_compilation_step(in.user)
             done == [j EXCEPT !.success = <<step.success>>,
                               !.compilation_success =
                                   <<step.compilation_success>>,
                               !.text = step.text]
         IN  IF step.success /\ step.compilation_success
             THEN Ends([done EXCEPT !.executables = {"a.out"}],
                       <<Deleted("compile")>>, "")
             ELSE Ends(done, <<Deleted("compile")>>, "")

\* The last lines without the test for None: "%s" % None is "None".
Conclude_formats_none(j, success, outcome, text) ==
    [j EXCEPT !.success = <<success>>,
              !.outcome = IF outcome # <<>> THEN <<str(outcome[1])>>
                          ELSE <<<<"N", "o", "n", "e">>>>,
              !.text = text]

\* The last lines of Batch.evaluate and of OutputOnly.evaluate.
Conclude(j, success, outcome, text) ==
    [j EXCEPT !.success = <<success>>,
              !.outcome = IF outcome # <<>> THEN <<str(outcome[1])>>
                          ELSE <<>>,
              !.text = text]

\* The calls a method makes on its sandboxes: create_sandbox,
\* create_file_from_storage or a copy into it, the run of a command or of
\* white_diff, get_file_to_storage, delete_sandbox.
Create(box) == [op |-> "create_sandbox", box |-> box, arg |-> ""]
Put(box, file) == [op |-> "create_file", box |-> box, arg |-> file]
Run(box, command) == [op |-> "run", box |-> box, arg |-> command]
Get(box, file) == [op |-> "get_file", box |-> box, arg |-> file]
Delete(box) == [op |-> "delete_sandbox", box |-> box, arg |-> ""]

\* A comparison made in the sandbox of the contestant.
CheckSandbox_reused == "evaluate"
\* Batch.evaluate: the sandbox of the comparison, create_sandbox(name="check").
CheckSandbox == "check"

\* A copy that follows the link.
CopyOutput_follows(in) == <<Put(CheckSandbox, "output.txt")>>
\* Batch.evaluate: the output of the contestant is copied into the checkbox
\* unless it is a symbolic link.
CopyOutput(in) ==
    IF in.symlink THEN <<>> ELSE <<Put(CheckSandbox, "output.txt")>>

\* Batch.evaluate: the calls it makes on its sandboxes, in order.
Batch_evaluate_calls(in) ==
    LET compare ==
            <<Create(CheckSandbox), Put(CheckSandbox, "res.txt"),
              Put(CheckSandbox, "input.txt")>>
            \o CopyOutput(in)
            \o (IF in.mode = "diff"
                THEN <<Run(CheckSandbox, "white_diff"), Delete(CheckSandbox),
                       Delete("evaluate")>>
                ELSE IF in.mode = "comparator"
                THEN (IF in.has_checker
                      THEN <<Put(CheckSandbox, "checker"),
                             Run(CheckSandbox, "checker")>>
                      ELSE <<>>)
                     \o <<Delete(CheckSandbox), Delete("evaluate")>>
                ELSE <<>>)
    IN  <<Create("evaluate")>>
        \o (IF ~in.one_executable THEN <<>>
            ELSE <<Put("evaluate", "a.out"), Put("evaluate", "input.txt"),
                   Run("evaluate", "a.out")>>
                 \o (IF \/ ~grading_evaluation_step(in.user)
                        \/ ~is_evaluation_passed(in.user)
                        \/ ~in.exists
                     THEN <<Delete("evaluate")>>
                     ELSE (IF in.get_output
                           THEN <<Get("evaluate", "output.txt")>> ELSE <<>>)
                          \o (IF in.only_execution
                              THEN <<Delete("evaluate")>>
                              ELSE compare)))

\* Batch.evaluate
Batch_evaluate(j, in) ==
    IF ~in.one_executable
    THEN Ends(j, <<Live("evaluate")>>, "AssertionError")
    ELSE IF ~grading_evaluation_step(in.user)
    THEN Ends(Conclude(j, FALSE, <<>>, <<>>), <<Deleted("evaluate")>>, "")
    ELSE IF ~is_evaluation_passed(in.user)
    THEN Ends(Conclude(j, TRUE, <<0>>, human_evaluation_message(in.user)),
              <<Deleted("evaluate")>>, "")
    ELSE IF ~in.exists
    THEN Ends(Conclude(j, TRUE, <<0>>,
                       <<"Evaluation didn't produce file %s", "output.txt">>),
              <<Deleted("evaluate")>>, "")
    ELSE LET stored == IF in.get_output
                       THEN [j EXCEPT !.user_output = <<"output.txt">>]
                       ELSE j
         IN  IF in.only_execution
             THEN Ends(Conclude(stored, TRUE, <<0>>,
                                <<"Execution completed successfully">>),
                       <<Deleted("evaluate")>>, "")
             ELSE IF in.mode = "diff"
             THEN LET diff == white_diff_step(CopyOutput(in) # <<>>, in.same)
                  IN  Ends(Conclude(stored, TRUE, diff.outcome, diff.text),
                           <<Deleted("evaluate"), Deleted("check")>>, "")
             ELSE IF in.mode = "comparator"
             THEN LET checker_success ==
                          in.has_checker /\ grading_evaluation_step(in.checker)
                      checker == extract_outcome_and_text(in.checker.stdout,
                                                          in.checker.stderr)
                  IN  IF checker_success /\ ~checker.raised
                      THEN Ends(Conclude(stored, TRUE, checker.outcome,
                                         checker.text),
                                <<Deleted("evaluate"), Deleted("check")>>, "")
                      ELSE Ends(Conclude(stored, FALSE, <<>>, <<>>),
                                <<Deleted("evaluate"), Deleted("check")>>, "")
             ELSE Ends(stored, <<Live("evaluate"), Live("check")>>,
                       "ValueError")

\* OutputOnly.compile
OutputOnly_compile(j) ==
    Ends([j EXCEPT !.success = <<TRUE>>, !.compilation_success = <<TRUE>>,
                   !.text = <<"No compilation needed">>],
         <<>>, "")

\* OutputOnly.evaluate without partial submissions: the sandbox is made
\* first and a file that was not submitted fails the job.
OutputOnly_evaluate_whole(j, in) ==
    IF ~in.exists
    THEN Ends(Conclude(j, FALSE, <<>>, <<>>), <<Deleted("check")>>, "")
    ELSE IF in.mode = "comparator"
    THEN LET step == checker_step(in.has_checker, in.checker)
         IN  Ends(Conclude(j, step.success, step.outcome, step.text),
                  <<Deleted("check")>>, "")
    ELSE LET diff == white_diff_step(TRUE, in.same)
         IN  Ends(Conclude(j, TRUE, diff.outcome, diff.text),
                  <<Deleted("check")>>, "")

\* OutputOnly.evaluate
OutputOnly_evaluate(j, in) ==
    IF ~in.exists
    THEN Ends([j EXCEPT !.success = <<TRUE>>,
                        !.outcome = <<<<"0", ".", "0">>>>,
                        !.text = <<"File not submitted">>],
              <<>>, "")
    ELSE IF in.mode = "comparator"
    THEN LET step == checker_step(in.has_checker, in.checker)
         IN  Ends(Conclude(j, step.success, step.outcome, step.text),
                  <<Deleted("check")>>, "")
    ELSE LET diff == white_diff_step(TRUE, in.same)
         IN  Ends(Conclude(j, TRUE, diff.outcome, diff.text),
                  <<Deleted("check")>>, "")

\* The job of the contestant whose program ran to its end and whose output
\* white_diff finds correct.
Plain ==
    [files |-> 1, one_executable |-> TRUE, user |-> OkRun, exists |-> TRUE,
     get_output |-> FALSE, only_execution |-> FALSE, mode |-> "diff",
     has_checker |-> TRUE, same |-> TRUE, checker |-> OkRun,
     symlink |-> FALSE, grader |-> FALSE]
Modes == {"diff", "comparator", "other"}
\* The jobs Batch.compile is called with.
CompileJobs ==
    {[Plain EXCEPT !.files = n, !.user = b, !.grader = g] :
         n \in {1, 2}, b \in CompilerRuns, g \in BOOLEAN}
\* The jobs Batch.evaluate is called with.
EvaluateJobs ==
    {[Plain EXCEPT !.one_executable = FALSE]}
    \cup {[Plain EXCEPT !.user = b, !.get_output = g] :
              b \in UserRuns, g \in BOOLEAN}
    \cup {[Plain EXCEPT !.exists = e, !.get_output = g,
                        !.only_execution = o, !.mode = m, !.same = s,
                        !.symlink = l] :
              e \in BOOLEAN, g \in BOOLEAN, o \in BOOLEAN, m \in Modes,
              s \in BOOLEAN, l \in BOOLEAN}
    \cup {[Plain EXCEPT !.mode = "comparator", !.get_output = g,
                        !.has_checker = h, !.checker = b, !.symlink = l] :
              g \in BOOLEAN, h \in BOOLEAN, b \in CheckerRuns,
              l \in BOOLEAN}
\* The jobs OutputOnly.evaluate is called with.
OutputOnlyJobs ==
    {[Plain EXCEPT !.exists = e, !.same = s] : e \in BOOLEAN, s \in BOOLEAN}
    \cup {[Plain EXCEPT !.mode = "comparator", !.has_checker = h,
                        !.checker = b] : h \in BOOLEAN, b \in CheckerRuns}

\* The variables a method of a task type working on a job leaves alone.
JobFrame ==
    /\ UNCHANGED <<wpc, result, ignore_job, tested>>
    /\ UNCHANGED <<queue_vars, score_vars, backlog_vars, admin_vars>>

\* One call of a method on a new job.
CallOnJob(op, in, end) ==
    /\ call' = [op |-> op, args |-> in, ret |-> [raised |-> end.raised]]
    /\ job' = end.job
    /\ sandboxes' = end.sandboxes
    /\ JobFrame

call_Batch_compile ==
    /\ WorkerIdle
    /\ \E in \in CompileJobs :
         LET end == Batch_compile(NoJob, in)
         IN  /\ call' = [op |-> "Batch.compile", args |-> in,
                         ret |-> [raised |-> end.raised,
                                  sources |-> Batch_compile_sources(in)]]
             /\ job' = end.job
             /\ sandboxes' = end.sandboxes
             /\ JobFrame

call_Batch_evaluate ==
    /\ WorkerIdle
    /\ \E in \in EvaluateJobs :
         LET end == Batch_evaluate([NoJob EXCEPT !.executables =
                                       IF in.one_executable THEN {"a.out"}
                                       ELSE {}],
                                   in)
         IN  /\ call' = [op |-> "Batch.evaluate", args |-> in,
                         ret |-> [raised |-> end.raised,
                                  calls |-> Batch_evaluate_calls(in)]]
             /\ job' = end.job
             /\ sandboxes' = end.sandboxes
             /\ JobFrame

call_OutputOnly_compile ==
    /\ WorkerIdle
    /\ CallOnJob("OutputOnly.compile", Plain, OutputOnly_compile(NoJob))

call_OutputOnly_evaluate ==
    /\ WorkerIdle
    /\ \E in \in OutputOnlyJobs :
         CallOnJob("OutputOnly.evaluate", in, OutputOnly_evaluate(NoJob, in))

(***************************************************************************)
(* TaskType.evaluate: the loop over the testcases of the task.             *)
(***************************************************************************)
\* The largest number of testcases of a task.
MaxTestcases == 3

\* TaskType.finish_evaluation_testcase: what it leaves in self.result.
finish_evaluation_testcase(res, test_number, success, outcome, text) ==
    LET obj == IF success
               THEN [success |-> TRUE, outcome |-> <<outcome>>,
                     text |-> <<text>>]
               ELSE [success |-> FALSE, outcome |-> <<>>, text |-> <<>>]
    IN  [res EXCEPT !.evaluations = (test_number :> obj) @@ @]

\* TaskType.finish_evaluation: what it leaves in self.result.
finish_evaluation(res, success) == [res EXCEPT !.success = <<success>>]

\* A loop that goes on after a testcase that could not be evaluated.
Stops_ignores_failure(success, ignored) == ignored

\* TaskType.evaluate: the test after each evaluate_testcase.
Stops(success, ignored) == ~success \/ ignored

\* The variables TaskType.evaluate leaves alone.
EvaluateFrame ==
    /\ UNCHANGED <<job, sandboxes>>
    /\ UNCHANGED <<queue_vars, score_vars, backlog_vars, admin_vars>>

\* TaskType.evaluate is called for a task with n testcases; with none the
\* loop is over at once.
call_evaluate ==
    /\ WorkerIdle
    /\ \E n \in 0..MaxTestcases :
         /\ call' = [op |-> "evaluate", args |-> [testcases |-> n],
                     ret |-> <<>>]
         /\ IF n = 0
            THEN /\ result' = finish_evaluation(result, TRUE)
                 /\ wpc' = "idle"
            ELSE /\ result' = result
                 /\ wpc' = "evaluate"
    /\ UNCHANGED <<ignore_job, tested>>
    /\ EvaluateFrame

\* The worker is told to drop the job while TaskType.evaluate runs.
set_ignore_job ==
    /\ wpc = "evaluate"
    /\ ~ignore_job
    /\ ignore_job' = TRUE
    /\ UNCHANGED <<wpc, call, result, tested>>
    /\ EvaluateFrame

\* One turn of the loop: evaluate_testcase, which ends with
\* finish_evaluation_testcase, the test, and finish_evaluation when the
\* loop is over.
evaluate_testcase ==
    /\ wpc = "evaluate"
    /\ Len(tested) < call.args.testcases
    /\ \E success \in BOOLEAN, outcome \in {0, One} :
         LET test_number == Len(tested)
             text == IF outcome = 0 THEN "Output isn't correct"
                     ELSE "Output is correct"
             res == finish_evaluation_testcase(result, test_number, success,
                                               outcome, text)
             last == test_number + 1 = call.args.testcases
         IN  /\ tested' = Append(tested,
                                 [test_number |-> test_number,
                                  success |-> success, outcome |-> outcome,
                                  ignore_job |-> ignore_job])
             /\ IF Stops(success, ignore_job)
                THEN /\ result' = finish_evaluation(res, FALSE)
                     /\ ignore_job' = FALSE
                     /\ wpc' = "idle"
                ELSE IF last
                THEN /\ result' = finish_evaluation(res, TRUE)
                     /\ ignore_job' = FALSE
                     /\ wpc' = "idle"
                ELSE /\ result' = res
                     /\ ignore_job' = ignore_job
                     /\ wpc' = "evaluate"
    /\ UNCHANGED call
    /\ EvaluateFrame

InitWorkerOnly == InitService(<<>>, [s \in Subs |-> <<1, 0>>])

NextWorker ==
    \/ call_compilation_step
    \/ call_evaluation_step
    \/ call_evaluation_step_after_run
    \/ call_Batch_compile
    \/ call_Batch_evaluate
    \/ call_OutputOnly_compile
    \/ call_OutputOnly_evaluate
    \/ call_evaluate
    \/ set_ignore_job
    \/ evaluate_testcase

SpecWorker == InitWorkerOnly /\ [][NextWorker]_vars

(***************************************************************************)
(* White diff: a string is the sequence of its characters, a file the      *)
(* string of its content.                                                  *)
(***************************************************************************)
WHITES == <<" ", "\t", "\n", "\r">>

\* The longest file compared, the longest file of a comparison of three,
\* and the longest string canonicalized.
MaxFileLen == 3
MaxShortLen == 2
MaxLineLen == 4

\* The strings over an alphabet of at most n characters.
Strings(alphabet, n) == UNION {[1..k -> alphabet] : k \in 0..n}
Files == Strings({"1", " ", "\t", "\n"}, MaxFileLen)
ShortFiles == Strings({"1", " ", "\n"}, MaxShortLen)
Lines == Strings({"1", " ", "\t", "\n", "\r"}, MaxLineLen)

\* string.replace(char, by) for single characters
replace(string, char, by) ==
    [i \in DOMAIN string |-> IF string[i] = char THEN by ELSE string[i]]

\* The place of the first sep in string, 0 when there is none.
find(string, sep) ==
    IF \E i \in DOMAIN string : string[i] = sep
    THEN CHOOSE i \in DOMAIN string :
             /\ string[i] = sep
             /\ \A j \in 1..(i - 1) : string[j] # sep
    ELSE 0

\* string.split(sep)
RECURSIVE split(_, _)
split(string, sep) ==
    LET i == find(string, sep)
    IN  IF i = 0 THEN <<string>>
        ELSE <<SubSeq(string, 1, i - 1)>>
             \o split(SubSeq(string, i + 1, Len(string)), sep)

\* sep.join(list)
RECURSIVE join(_, _)
join(sep, list) ==
    IF list = <<>> THEN <<>>
    ELSE IF Len(list) = 1 THEN list[1]
    ELSE list[1] \o <<sep>> \o join(sep, Tail(list))

\* x != ''
NotEmpty(x) == x # <<>>

\* string.strip(chars)
RECURSIVE strip_chars(_, _)
strip_chars(string, chars) ==
    IF string # <<>> /\ Head(string) \in Range(chars)
    THEN strip_chars(Tail(string), chars)
    ELSE IF string # <<>> /\ string[Len(string)] \in Range(chars)
    THEN strip_chars(Front(string, 1), chars)
    ELSE string

\* The loop of white_diff_canonicalize over WHITES[1:].
RECURSIVE replace_whites(_, _)
replace_whites(string, chars) ==
    IF chars = <<>> THEN string
    ELSE replace_whites(replace(string, Head(chars), WHITES[1]), Tail(chars))

\* A canonical form that keeps the empty tokens: runs are not collapsed
\* and the ends are not stripped.
white_diff_canonicalize_replace_only(string) ==
    replace_whites(string, Tail(WHITES))

\* white_diff_canonicalize
white_diff_canonicalize(string) ==
    join(WHITES[1],
         SelectSeq(split(replace_whites(string, Tail(WHITES)), WHITES[1]),
                   NotEmpty))

\* The lines file.readline() returns one after the other, each with its "\n".
RECURSIVE readlines(_)
readlines(file) ==
    LET i == find(file, "\n")
    IN  IF file = <<>> THEN <<>>
        ELSE IF i = 0 THEN <<file>>
        ELSE <<SubSeq(file, 1, i)>>
             \o readlines(SubSeq(file, i + 1, Len(file)))

\* readline() number i of a file of these lines: '' at the end of file.
readline(lines, i) == IF i <= Len(lines) THEN lines[i] ELSE <<>>

\* The loop of white_diff, at its turn i.
RECURSIVE white_diff_loop(_, _, _)
white_diff_loop(output, res, i) ==
    LET lout == readline(output, i)
        lres == readline(res, i)
    IN  IF lres = <<>> /\ lout = <<>> THEN TRUE
        ELSE IF lres = <<>> \/ lout = <<>>
        THEN IF strip_chars(lout, WHITES) # <<>>
                \/ strip_chars(lres, WHITES) # <<>>
             THEN FALSE
             ELSE white_diff_loop(output, res, i + 1)
        ELSE IF white_diff_canonicalize(lout) # white_diff_canonicalize(lres)
        THEN FALSE
        ELSE white_diff_loop(output, res, i + 1)

\* A white_diff that stops at the end of the shorter file.
white_diff_prefix(output, res) ==
    \A i \in 1..Min(Len(readlines(output)), Len(readlines(res))) :
        white_diff_canonicalize(readlines(output)[i])
            = white_diff_canonicalize(readlines(res)[i])

\* white_diff
white_diff(output, res) ==
    white_diff_loop(readlines(output), readlines(res), 1)

\* A white_diff_step that does not look whether the output file is there.
TaskType_white_diff_step_unchecked(exists, output, res) ==
    LET diff == white_diff_step(TRUE, white_diff(output, res))
    IN  StepReturn(TRUE, diff.outcome, diff.text)

\* TaskType.white_diff_step: what it returns, for an output file with the
\* content output, when it is there, and the file res.txt with the content
\* res.
TaskType_white_diff_step(exists, output, res) ==
    LET diff == white_diff_step(exists, exists /\ white_diff(output, res))
    IN  StepReturn(TRUE, diff.outcome, diff.text)

\* One call of white_diff on two files, in both orders and on each file
\* with itself.
call_white_diff ==
    /\ WorkerIdle
    /\ \E a \in Files, b \in Files :
         call' = [op |-> "white_diff", args |-> [a |-> a, b |-> b],
                  ret |-> [ab |-> white_diff(a, b), ba |-> white_diff(b, a),
                           aa |-> white_diff(a, a)]]
    /\ UNCHANGED result
    /\ StepFrame

\* Calls of white_diff on the pairs of three files.
call_white_diff_three ==
    /\ WorkerIdle
    /\ \E a \in ShortFiles, b \in ShortFiles, c \in ShortFiles :
         call' = [op |-> "white_diff three",
                  args |-> [a |-> a, b |-> b, c |-> c],
                  ret |-> [ab |-> white_diff(a, b), bc |-> white_diff(b, c),
                           ac |-> white_diff(a, c)]]
    /\ UNCHANGED result
    /\ StepFrame

\* One call of white_diff_canonicalize, and one more on its result.
call_white_diff_canonicalize ==
    /\ WorkerIdle
    /\ \E string \in Lines :
         LET once == white_diff_canonicalize(string)
         IN  call' = [op |-> "white_diff_canonicalize",
                      args |-> [string |-> string],
                      ret |-> [once |-> once,
                               twice |-> white_diff_canonicalize(once)]]
    /\ UNCHANGED result
    /\ StepFrame

\* One call of white_diff_step.
call_white_diff_step ==
    /\ WorkerIdle
    /\ \E exists \in BOOLEAN, output \in ShortFiles, res \in ShortFiles :
         call' = [op |-> "white_diff_step",
                  args |-> [exists |-> exists, output |-> output,
                            res |-> res],
                  ret |-> TaskType_white_diff_step(exists, output, res)]
    /\ UNCHANGED result
    /\ StepFrame

NextDiff ==
    \/ call_white_diff
    \/ call_white_diff_three
    \/ call_white_diff_canonicalize
    \/ call_white_diff_step

SpecDiff == InitWorkerOnly /\ [][NextDiff]_vars

(***************************************************************************)
(* Sending to a ranking: safe_put_data, safe_post_data and initialize on   *)
(* the statuses the ranking answers.                                       *)
(***************************************************************************)
\* More answers of a ranking: a success that is not 200 or 201, a missing
\* page.
SendStatuses == Statuses \cup {204, 404}

\* safe_post_data returns (TRUE) or raises CannotSendError (FALSE).
safe_post_data(status) == status \in {200, 201}

\* One call of safe_put_data.
call_safe_put_data ==
    /\ WorkerIdle
    /\ \E status \in SendStatuses :
         call' = [op |-> "safe_put_data", args |-> [status |-> status],
                  ret |-> [returned |-> safe_put_data(status)]]
    /\ UNCHANGED result
    /\ StepFrame

\* One call of safe_post_data.
call_safe_post_data ==
    /\ WorkerIdle
    /\ \E status \in SendStatuses :
         call' = [op |-> "safe_post_data", args |-> [status |-> status],
                  ret |-> [returned |-> safe_post_data(status)]]
    /\ UNCHANGED result
    /\ StepFrame

\* dispatch_operations on the first entry of the queue, an initialize, the
\* ranking answering its three PUTs with resp: whether initialize returned
\* and what the entry leaves in new_queue.
call_initialize ==
    /\ WorkerIdle
    /\ operation_queue # <<>>
    /\ operation_queue[1].method = "initialize"
    /\ \E resp \in [1..3 -> SendStatuses] :
         LET e == operation_queue[1]
             L == [new_queue |-> <<>>, failed_rankings |-> {},
                   delivered |-> delivered, attempts |-> <<>>]
             M == dispatch_entry(L, e, Returns(e, resp))
         IN  call' = [op |-> "initialize", args |-> [resp |-> resp],
                      ret |-> [returned |-> Returns(e, resp),
                               new_queue |-> M.new_queue]]
    /\ UNCHANGED result
    /\ StepFrame

\* The characters encode_id keeps.
Alphanumeric ==
    {"A", "B", "C", "D", "E", "F", "G", "H", "I", "J", "K", "L", "M", "N",
     "O", "P", "Q", "R", "S", "T", "U", "V", "W", "X", "Y", "Z",
     "a", "b", "c", "d", "e", "f", "g", "h", "i", "j", "k", "l", "m", "n",
     "o", "p", "q", "r", "s", "t", "u", "v", "w", "x", "y", "z",
     "0", "1", "2", "3", "4", "5", "6", "7", "8", "9"}

\* The characters of the ids encoded here, and the longest id.
IdChars == {"a", "Z", "7", "_", "-", " ", "\t", "\n"}
MaxIdLen == 2
EntityIds == Strings(IdChars, MaxIdLen)

\* ord(char), for the characters of the ids.
ord(char) ==
    CASE char = "a" -> 97
      [] char = "Z" -> 90
      [] char = "7" -> 55
      [] char = "_" -> 95
      [] char = "-" -> 45
      [] char = " " -> 32
      [] char = "\t" -> 9
      [] char = "\n" -> 10

HexDigits ==
    <<"0", "1", "2", "3", "4", "5", "6", "7", "8", "9",
      "a", "b", "c", "d", "e", "f">>

\* The hexadecimal digits of n, without leading zero.
RECURSIVE hex_digits(_)
hex_digits(n) ==
    IF n < 16 THEN <<HexDigits[n + 1]>>
    ELSE hex_digits(n \div 16) \o <<HexDigits[(n % 16) + 1]>>

\* hex(n)
hex(n) == <<"0", "x">> \o hex_digits(n)

\* string[-2:]
last_two(string) ==
    SubSeq(string, Max({1, Len(string) - 1}), Len(string))

\* encode_id
RECURSIVE encode_id(_)
encode_id(entity_id) ==
    IF entity_id = <<>> THEN <<>>
    ELSE LET char == Head(entity_id)
         IN  (IF char \notin Alphanumeric
              THEN <<"_">> \o last_two(hex(ord(char)))
              ELSE <<char>>)
             \o encode_id(Tail(entity_id))

\* One call of encode_id.
call_encode_id ==
    /\ WorkerIdle
    /\ \E entity_id \in EntityIds :
         call' = [op |-> "encode_id", args |-> [entity_id |-> entity_id],
                  ret |-> [encoded_id |-> encode_id(entity_id)]]
    /\ UNCHANGED result
    /\ StepFrame

NextSend ==
    \/ call_safe_put_data
    \/ call_safe_post_data
    \/ call_initialize
    \/ call_encode_id

SpecSend == Init /\ [][NextSend]_vars

\* ---------------------------------------------------------------------
\* The contest web server: get_current_user.

\* The participations of the contest: whether each is hidden, and whether
\* its ip is None, holds the remote address or holds another one.
Participations == {"p1", "p2"}
ParticipationIps == {"none", "remote", "other"}
ContestParticipations ==
    [Participations -> [hidden : BOOLEAN, ip : ParticipationIps]]

\* A request: the contest's settings, its participations, whether the remote
\* address parses, and the participation _get_current_user_from_cookie
\* returns (<<>> is None: no cookie, unparsable, expired, unknown user or
\* wrong password).
LoginRequests ==
    [ip_autologin : BOOLEAN, allow_password_authentication : BOOLEAN,
     ip_restriction : BOOLEAN, block_hidden_participations : BOOLEAN,
     remote_ip_valid : BOOLEAN, participations : ContestParticipations,
     cookie : {<<>>} \cup {<<p>> : p \in Participations}]

\* check_ip(self.request.remote_ip, participation.ip)
check_ip(req, p) ==
    req.remote_ip_valid /\ req.participations[p].ip = "remote"

\* ContestHandler._get_current_user_from_ip
_get_current_user_from_ip(req) ==
    LET matching ==
            {p \in Participations :
                /\ req.participations[p].ip = "remote"
                /\ req.block_hidden_participations =>
                       ~req.participations[p].hidden}
    IN  IF ~req.remote_ip_valid
        THEN [raised |-> FALSE, participation |-> <<>>]
        ELSE IF Cardinality(matching) = 1
        THEN [raised |-> FALSE, participation |-> <<The(matching)>>]
        ELSE IF Cardinality(matching) > 1
        THEN [raised |-> TRUE, participation |-> <<>>]
        ELSE [raised |-> FALSE, participation |-> <<>>]

\* ContestHandler.get_current_user: the participation returned (<<>> is
\* None) and whether clear_cookie(cookie_name) was called.
get_current_user(req) ==
    LET from_ip == IF req.ip_autologin THEN _get_current_user_from_ip(req)
                   ELSE [raised |-> FALSE, participation |-> <<>>]
        by_ip == from_ip.participation # <<>>
        participation ==
            IF from_ip.participation = <<>>
               /\ req.allow_password_authentication
            THEN req.cookie
            ELSE from_ip.participation
        p == participation[1]
        ip_login_restricted ==
            /\ req.ip_restriction
            /\ req.participations[p].ip # "none"
            /\ ~check_ip(req, p)
        hidden_user_restricted ==
            /\ req.participations[p].hidden
            /\ req.block_hidden_participations
    IN  IF from_ip.raised
        THEN [participation |-> <<>>, clear_cookie |-> FALSE,
              by_ip |-> FALSE]
        ELSE IF participation = <<>>
        THEN [participation |-> <<>>, clear_cookie |-> TRUE,
              by_ip |-> FALSE]
        ELSE IF ip_login_restricted \/ hidden_user_restricted
        THEN [participation |-> <<>>, clear_cookie |-> TRUE,
              by_ip |-> by_ip]
        ELSE [participation |-> participation, clear_cookie |-> by_ip,
              by_ip |-> by_ip]

\* One request handled by get_current_user.
call_get_current_user ==
    /\ WorkerIdle
    /\ \E req \in LoginRequests :
         call' = [op |-> "get_current_user", args |-> req,
                  ret |-> get_current_user(req)]
    /\ UNCHANGED result
    /\ StepFrame

NextLogin == call_get_current_user

SpecLogin == Init /\ [][NextLogin]_vars

\* ---------------------------------------------------------------------
\* The admin web server: the tasks of a contest and their order.

\* contest.tasks: the tasks of contest c in the table db.
TasksOf(db, c) == {t \in TaskIds : db[t].contest = <<c>>}

\* try_commit: the commit fails, and the session is rolled back, when two
\* tasks of one contest have the same num.
try_commit(before, db) ==
    IF \E t, u \in TaskIds :
           /\ t # u
           /\ db[t].contest # <<>>
           /\ db[t].contest = db[u].contest
           /\ db[t].num = db[u].num
    THEN before
    ELSE db

\* AddContestTaskHandler.post
AddContestTask(db, c, task) ==
    try_commit(db, [db EXCEPT ![task] =
                       [contest |-> <<c>>,
                        num |-> <<Cardinality(TasksOf(db, c))>>]])

\* ContestTasksHandler.post, "Remove from contest"
RemoveFromContest(db, c, task) ==
    LET task_num == db[task].num
        freed == [db EXCEPT ![task] = Unassigned]
    IN  try_commit(db,
            [t \in TaskIds |->
                IF /\ t \in TasksOf(freed, c)
                   /\ task_num # <<>>
                   /\ freed[t].num # <<>>
                   /\ freed[t].num[1] > task_num[1]
                THEN [freed[t] EXCEPT !.num = <<@[1] - 1>>]
                ELSE freed[t]])

\* Swap task.num and task2.num
Swap(db, task, task2) ==
    [db EXCEPT ![task].num = db[task2].num, ![task2].num = db[task].num]

\* ContestTasksHandler.post, "Move up" (by = -1) and "Move down" (by = 1):
\* the tables the request can leave, one for each task the query for task2
\* can return first; task.num being None, task.num + by raises TypeError.
Move(db, c, task, by) ==
    LET found == {t \in TasksOf(db, c) :
                     /\ db[task].num # <<>>
                     /\ db[t].num = <<db[task].num[1] + by>>}
    IN  IF found = {} THEN {db}
        ELSE {try_commit(db, Swap(db, task, task2)) : task2 \in found}

AdminFrame ==
    /\ UNCHANGED <<wpc, result, ignore_job, tested, job, sandboxes>>
    /\ UNCHANGED <<queue_vars, score_vars, backlog_vars>>

\* One request, recorded with the table it found.
Request(operation, c, task) ==
    call' = [op |-> operation, args |-> [contest |-> c, task_id |-> task],
             ret |-> [before |-> task_db]]

post_add_task ==
    /\ \E c \in Contests, task \in TaskIds :
         /\ task_db' = AddContestTask(task_db, c, task)
         /\ Request("add task to contest", c, task)
    /\ AdminFrame

post_remove_from_contest ==
    /\ \E c \in Contests, task \in TaskIds :
         /\ task_db' = RemoveFromContest(task_db, c, task)
         /\ Request("Remove from contest", c, task)
    /\ AdminFrame

post_move_up ==
    /\ \E c \in Contests, task \in TaskIds :
         /\ task_db' \in Move(task_db, c, task, -1)
         /\ Request("Move up", c, task)
    /\ AdminFrame

post_move_down ==
    /\ \E c \in Contests, task \in TaskIds :
         /\ task_db' \in Move(task_db, c, task, 1)
         /\ Request("Move down", c, task)
    /\ AdminFrame

NextAdmin ==
    \/ post_add_task
    \/ post_remove_from_contest
    \/ post_move_up
    \/ post_move_down

SpecAdmin == Init /\ [][NextAdmin]_vars



(***************************************************************************)
(* Properties of the operation queue.                                      *)
(***************************************************************************)
Serials(q) == {q[i].n : i \in 1..Len(q)}
EntriesOf(q, r) == {q[i] : i \in {j \in 1..Len(q) : q[j].ranking = r}}
Increasing(q) == \A i, j \in 1..Len(q) : i < j => q[i] < q[j]
SerialsIncrease(q) == \A i, j \in 1..Len(q) : i < j => q[i].n < q[j].n
\* The for loop of dispatch_operations is over; new_queue is not yet stored.
LoopOver == pc = "dispatch" /\ queue_pos > Len(operation_queue)
\* The step that ends a tick of dispatch_operations.
TickEnds == pc = "dispatch" /\ pc' = "idle"
ReturnedInTick(e) == \E a \in Range(attempts) : a.n = e.n /\ a.ok
RaisedInTick(e) == \E a \in Range(attempts) : a.n = e.n /\ ~a.ok
\* The entries still to deliver: in a tick, those kept and those not reached.
Pending ==
    IF pc = "dispatch"
    THEN Range(new_queue)
         \cup {operation_queue[i] : i \in queue_pos..Len(operation_queue)}
    ELSE Range(operation_queue)

\* C1: an entry leaves operation_queue at the end of a tick if and only if
\* its method was called in that tick and returned; an entry whose call
\* raised, or that was skipped for a failed ranking, is still in the queue.
C1_RemovedOnlyAfterReturn ==
    [][TickEnds =>
        \A e \in Range(operation_queue) :
            /\ (e \notin Range(operation_queue')) <=> ReturnedInTick(e)
            /\ (RaisedInTick(e) \/ ~\E a \in Range(attempts) : a.n = e.n)
                   => e \in Range(operation_queue')]_vars

\* C1 witness: a tick about to end with a delivered entry, an entry whose
\* call raised and an entry skipped for its failed ranking.
C1_Witness ==
    /\ LoopOver
    /\ \E e \in Range(operation_queue) : ReturnedInTick(e)
    /\ \E e \in Range(operation_queue) : RaisedInTick(e)
    /\ \E e \in Range(operation_queue) :
           ~\E a \in Range(attempts) : a.n = e.n

\* C2: for every ranking the entries are delivered in the order of their
\* append, none overtaking an entry of the same ranking that is still to
\* deliver, and the queue keeps the order of the appends.
C2_FifoPerRanking ==
    /\ \A r \in AllRankings :
         /\ Increasing(delivered[r])
         /\ \A e \in Pending : \A i \in 1..Len(delivered[r]) :
                e.ranking = r => delivered[r][i] < e.n
    /\ SerialsIncrease(operation_queue)
    /\ SerialsIncrease(new_queue)

\* C2 witness: a ranking got two entries delivered, and in the running
\* tick a delivery to it failed and an entry of it is kept for the next.
C2_Witness ==
    \E r \in AllRankings :
        /\ Len(delivered[r]) >= 2
        /\ pc = "dispatch"
        /\ r \in failed_rankings
        /\ \E e \in Range(new_queue) : e.ranking = r

\* The deliveries to ranking r failed in the tick / none of them failed.
FailsInTick(r) ==
    /\ r \in failed_rankings
    /\ \A a \in Range(attempts) : a.ranking = r => ~a.ok
SucceedsInTick(r) ==
    /\ r \notin failed_rankings
    /\ EntriesOf(operation_queue, r) # {}

\* C3: in a tick where the deliveries to A fail and those to B succeed,
\* every entry of B is called and removed in that tick, wherever it is in
\* the queue, and every entry of A is in the queue after the tick.
C3_FailureDoesNotDelayOthers ==
    [][TickEnds =>
        \A A, B \in AllRankings :
            (FailsInTick(A) /\ SucceedsInTick(B)) =>
                /\ \A e \in EntriesOf(operation_queue, B) :
                       ReturnedInTick(e) /\ e \notin Range(operation_queue')
                /\ EntriesOf(operation_queue, A)
                       = EntriesOf(operation_queue', A)
                /\ EntriesOf(operation_queue', B) = {}]_vars

\* C3 witness: the loop is over, A failed at its first entry, which is
\* ahead of entries of B, and B got all its entries.
C3_Witness ==
    /\ LoopOver
    /\ \E A, B \in AllRankings :
         /\ FailsInTick(A) /\ SucceedsInTick(B)
         /\ \E i, j \in 1..Len(operation_queue) :
              /\ i < j
              /\ operation_queue[i].ranking = A
              /\ operation_queue[j].ranking = B
         /\ Cardinality(EntriesOf(operation_queue, B)) >= 2

\* Entry number n is in the queue, for a ranking that accepts from now on.
QueuedForAccepting(n) ==
    \E e \in Range(operation_queue) : e.n = n /\ e.ranking \in accepting

\* C4: with dispatch_operations run again and again, every entry queued
\* for a ranking that accepts every request from now on is eventually out
\* of the queue, whatever the other rankings do.
C4_AcceptingRankingDrains ==
    \A n \in 1..MaxOps :
        QueuedForAccepting(n) ~> (n \notin Serials(operation_queue))

\* C4 witness: a ranking that accepts got all its entries while the other
\* ranking, which failed, keeps entries appended before them.
C4_Witness ==
    /\ pc = "idle"
    /\ \E A, B \in AllRankings :
         /\ A \notin accepting /\ B \in accepting
         /\ EntriesOf(operation_queue, B) = {}
         /\ EntriesOf(operation_queue, A) # {}
         /\ Len(delivered[A]) = 0
         /\ Len(delivered[B]) >= 3

\* Every entry ever appended is in the queue or was delivered.
NoEntryLost ==
    \A n \in 1..enqueued :
        \/ n \in Serials(operation_queue)
        \/ \E r \in AllRankings : n \in Range(delivered[r])

C6_FailureCommitsNothing ==
    [][\A id \in Ids, fault \in Faults \ {"none"} :
          rpc_new_evaluation(id, fault) =>
              sub_db' = sub_db /\ ranking_view' = ranking_view]_vars

\* A call of new_evaluation for a submission it scores, that returns.
ScoresAgain(id) ==
    /\ rpc_new_evaluation(id, "none")
    /\ ~UserHidden(SubUser(id))
    /\ last_scored[id] # <<>>
    /\ last_scored[id][1].evaluations = evaluations[id]

\* C7: a call of new_evaluation for a submission whose evaluations are
\* those of the previous call leaves the score, the public score and the
\* details the previous call left, replaces the pool entry by the entry of
\* these evaluations and leaves submission_ids_scored as it is.
C7_NewEvaluationIdempotent ==
    [][\A id \in Subs :
          ScoresAgain(id) =>
              /\ sub_db'[id] = last_scored[id][1].fields
              /\ pool'[id] = add_submission(pool, id, evaluations[id],
                                            tokened(id))[id]
              /\ submission_ids_scored' = submission_ids_scored]_vars

\* C7 witness: a submission scored twice in a row with the same
\* evaluations, after its evaluations had changed once.
C7_Witness ==
    \E id \in Subs :
        /\ last_scored[id] # <<>>
        /\ last_scored[id][1].times = 2
        /\ last_scored[id][1].evaluations = <<1, 1>>
        /\ sub_db[id] = last_scored[id][1].fields
        /\ id \in submission_ids_scored

(***************************************************************************)
(* Properties of the catch-up.                                             *)
(***************************************************************************)
\* The number of calls of score_old_submissions that drain s ids.
TicksFor(s) == (s + ScoreCap - 1) \div ScoreCap

BacklogEmpty ==
    submission_ids_to_score = <<>> /\ submission_ids_to_token = <<>>

Invalidates(a) == rpc_invalidate_submission(a[1], a[2], a[3])
Matching(a) == get_submissions(a[1], a[2], a[3])

DbScore(u, t) ==
    LET mine == {s \in submission_ids_scored :
                   SubUser(s) = u /\ SubTask(s) = t /\ sub_db[s].score # <<>>}
    IN  IF mine = {} THEN 0 ELSE Max({sub_db[s].score[1] : s \in mine})

\* Ranking r was sent the metadata and the score of every scored submission.
Resent(r) ==
    /\ <<"initialize", 0>> \in resync[r]
    /\ \A s \in submission_ids_scored :
           /\ <<"send_submission", s>> \in resync[r]
           /\ <<"send_change", s>> \in resync[r]

\* C11: once the queue is drained after __init__ or reinitialize, every
\* configured ranking was sent, since then, the contest, users and tasks and
\* the score of every submission of submission_ids_scored, and the ranking
\* view holds the scores of these submissions.
C11_ReinitializeResyncs ==
    (pc = "idle" /\ operation_queue = <<>>) =>
        /\ \A r \in Range(rankings) : Resent(r)
        /\ \A u \in Users, t \in Tasks : ranking_view[u, t] = DbScore(u, t)

(***************************************************************************)
(* Properties of the grading steps.                                        *)
(***************************************************************************)
\* The run of the last call and what the call returned.
Box == call.args.box
Ret == call.ret
Compiled(box) == box.exit_status = "ok" /\ box.exit_code = 0

\* C12: compilation_step returns success False exactly when the sandbox
\* could not run the command or ended in SANDBOX_ERROR; a timeout, a signal,
\* a forbidden syscall, a forbidden file access and a non-zero exit code give
\* success True with compilation_success False, and compilation_success is
\* True only for OK with exit code 0.
C12_CompilationStepClassifies ==
    call.op = "compilation_step" =>
        /\ ~Ret.success <=> (~Box.ran \/ Box.exit_status = "sandbox error")
        /\ (Box.ran /\ Box.exit_status # "sandbox error" /\ ~Compiled(Box))
               => (Ret.success /\ Ret.compilation_success = <<FALSE>>)
        /\ Ret.compilation_success = <<TRUE>> <=> (Box.ran /\ Compiled(Box))

\* The last call is evaluation_step_after_run as the final step.
FinalAfterRun == call.op = "evaluation_step_after_run" /\ call.args.final
\* The exit statuses of a command the sandbox stopped.
Stopped == {"timeout", "signal", "syscall", "file access"}
\* The outcome and the text the manager wrote, when both can be read.
Parses(box) ==
    /\ box.stdout # Undecodable
    /\ box.stderr # Undecodable
    /\ float(strip(box.stdout)) # <<>>

\* What C13 says of the exit statuses other than OK.
AfterRunNotOk ==
    /\ Box.exit_status \in Stopped =>
           /\ Ret.success
           /\ Ret.outcome = <<0>>
           /\ Ret.text # <<>> /\ Ret.text[1] # <<>>
    /\ Box.exit_status = "sandbox error" => ~Ret.success

\* C13 as stated: evaluation_step_after_run as the final step gives success
\* True, outcome 0.0 and a text for TIMEOUT, SIGNALLED, FORBIDDEN_SYSCALL and
\* FORBIDDEN_FILE_ACCESS, success False for SANDBOX_ERROR, and for OK success
\* True with the outcome parsed from the output of the manager.
C13_AfterRunMapping ==
    FinalAfterRun =>
        /\ AfterRunNotOk
        /\ Box.exit_status = "ok" =>
               /\ Ret.success
               /\ Ret.outcome # <<>>
               /\ Ret.outcome = float(strip(Box.stdout))

\* C13 amended: as stated for the exit statuses other than OK; for OK,
\* success True with the parsed outcome when the output of the manager can be
\* read and parsed, and success False without outcome when it cannot.
C13_AfterRunMappingAmended ==
    FinalAfterRun =>
        /\ AfterRunNotOk
        /\ Box.exit_status = "ok" =>
               IF Parses(Box)
               THEN /\ Ret.success
                    /\ Ret.outcome = float(strip(Box.stdout))
               ELSE ~Ret.success /\ Ret.outcome = <<>>

\* C13 witness: the final step of a command that exited normally and whose
\* manager wrote the outcome 0.5.
C13_Witness ==
    /\ FinalAfterRun
    /\ Box.exit_status = "ok"
    /\ Ret.success
    /\ Ret.outcome = <<One \div 2>>

\* The same run with another offending syscall and another offending path.
Offending(box, syscall, path) ==
    [box EXCEPT !.syscall = syscall, !.path = path]

\* C14: a run that ended with a forbidden syscall or a forbidden file access
\* gets from evaluation_step_after_run the success, outcome and text that
\* every run differing only in the offending syscall or path gets.
C14_TextDoesNotDisclose ==
    (call.op = "evaluation_step_after_run"
     /\ Box.exit_status \in {"syscall", "file access"}) =>
        \A syscall \in Syscalls, path \in Paths :
            evaluation_step_after_run(Offending(Box, syscall, path),
                                      call.args.final) = Ret

\* The last call is a step of an evaluation.
EvaluationStep == call.op \in {"evaluation_step", "evaluation_step_after_run"}
\* The last call is the evaluate of a task type on a job.
JobEvaluate == call.op \in {"Batch.evaluate", "OutputOnly.evaluate"}

\* C15: evaluation_step and evaluation_step_after_run return the outcome
\* None whenever they return success False, and Batch.evaluate and
\* OutputOnly.evaluate leave job.outcome None whenever they leave
\* job.success False.
C15_FailureHasNoOutcome ==
    /\ (EvaluationStep /\ ~Ret.success) => Ret.outcome = <<>>
    /\ (JobEvaluate /\ job.success = <<FALSE>>) => job.outcome = <<>>

\* C15 witness: Batch.evaluate ended with success False because the
\* comparator wrote a first line that is not a float.
C15_Witness ==
    /\ call.op = "Batch.evaluate"
    /\ call.args.mode = "comparator"
    /\ call.args.has_checker
    /\ grading_evaluation_step(call.args.checker)
    /\ call.args.checker.stdout = <<"a", "b", "c">>
    /\ job.success = <<FALSE>>
    /\ job.outcome = <<>>

\* An outcome, None or a float, is within the range of a testcase.
InRange(outcome) ==
    outcome # <<>> => (0 <= outcome[1] /\ outcome[1] <= task_max_outcome)

\* C16: every outcome an evaluation sets, from the exit status, from white
\* diff or from the first line a manager or comparator wrote, is at least
\* 0.0 and at most task_max_outcome.
C16_OutcomeInRange ==
    /\ EvaluationStep => InRange(Ret.outcome)
    /\ JobEvaluate =>
           (job.outcome # <<>> =>
                /\ float(job.outcome[1]) # <<>>
                /\ InRange(float(job.outcome[1])))

\* Batch.evaluate got to read what the comparator wrote.
ComparatorRead ==
    /\ call.op = "Batch.evaluate"
    /\ call.args.one_executable
    /\ grading_evaluation_step(call.args.user)
    /\ is_evaluation_passed(call.args.user)
    /\ call.args.exists /\ ~call.args.only_execution
    /\ call.args.mode = "comparator"
    /\ call.args.has_checker
    /\ grading_evaluation_step(call.args.checker)

\* C17: when the first line of the standard output of the manager or
\* comparator is not a float, or one of its two streams does not decode,
\* evaluation_step_after_run as the final step returns success False with
\* outcome None and text None, and Batch.evaluate with a comparator ends
\* with job.success False and job.outcome None.
C17_ParseFailureIsFailure ==
    /\ (FinalAfterRun /\ Box.exit_status = "ok" /\ ~Parses(Box)) =>
           (~Ret.success /\ Ret.outcome = <<>> /\ Ret.text = <<>>)
    /\ (ComparatorRead /\ ~Parses(call.args.checker)) =>
           (job.success = <<FALSE>> /\ job.outcome = <<>>)

\* C17 witness: the final step of a run whose manager wrote the outcome 1.0
\* and a standard error that does not decode.
C17_Witness ==
    /\ FinalAfterRun
    /\ Box.exit_status = "ok"
    /\ float(strip(Box.stdout)) = <<One>>
    /\ Box.stderr = Undecodable
    /\ ~Ret.success

\* TaskType.evaluate was called and has returned.
Evaluated == call.op = "evaluate" /\ wpc = "idle"
\* The places in tested of the testcases evaluated so far.
Turns == 1..Len(tested)

\* What C18 says of the order and of the end of the loop: the testcases are
\* evaluated in increasing order from 0, none is evaluated after one whose
\* evaluate_testcase returned False or at whose end ignore_job was set, and
\* the loop ends before the last testcase for no other reason.
EvaluateInOrder ==
    call.op = "evaluate" =>
        /\ \A k \in Turns : tested[k].test_number = k - 1
        /\ \A k \in Turns :
               k < Len(tested) => (tested[k].success /\ ~tested[k].ignore_job)
        /\ (wpc = "idle" /\ Len(tested) < call.args.testcases) =>
               /\ tested # <<>>
               /\ ~tested[Len(tested)].success \/ tested[Len(tested)].ignore_job

\* Every testcase of the task was evaluated successfully.
AllSucceeded ==
    /\ Len(tested) = call.args.testcases
    /\ \A k \in Turns : tested[k].success

\* C18 as stated: TaskType.evaluate evaluates the testcases in increasing
\* order, stops after the first failure or after ignore_job is set and not
\* after a success with outcome 0.0, and reports success True exactly when
\* every testcase was evaluated successfully.
C18_EvaluateFailFast ==
    /\ EvaluateInOrder
    /\ Evaluated => (result.success = <<TRUE>> <=> AllSucceeded)

\* C18 amended: the same order and end of the loop, and success True
\* exactly when every testcase was evaluated successfully and ignore_job
\* was set at the end of none of them.
C18_EvaluateFailFastAmended ==
    /\ EvaluateInOrder
    /\ Evaluated =>
           (result.success = <<TRUE>> <=>
                (AllSucceeded /\ \A k \in Turns : ~tested[k].ignore_job))

\* C18 witness: a task of three testcases was evaluated to the end, the
\* first testcase succeeding with the outcome 0.0.
C18_Witness ==
    /\ Evaluated
    /\ call.args.testcases = 3
    /\ Len(tested) = 3
    /\ tested[1].success /\ tested[1].outcome = 0
    /\ result.success = <<TRUE>>

\* The last call is compile or evaluate of Batch or OutputOnly.
JobMethod ==
    call.op \in {"Batch.compile", "Batch.evaluate", "OutputOnly.evaluate"}

\* C19: when Batch.compile, Batch.evaluate or OutputOnly.evaluate ends,
\* whether it returns or raises, delete_sandbox was called on every sandbox
\* create_sandbox returned.
C19_SandboxesDeleted ==
    JobMethod => \A k \in DOMAIN sandboxes : sandboxes[k].state = "deleted"

\* C20: an attempt that ends with success False fills no field of its
\* result: finish_evaluation_testcase records neither outcome nor text for
\* the testcase, compilation_step records no executables, and Batch.evaluate
\* leaves job.outcome None, job.text empty and job.user_output unset.
C20_FailureFillsNothing ==
    /\ call.op = "evaluate" =>
           \A k \in Turns :
               ~tested[k].success =>
                   /\ result.evaluations[k - 1].outcome = <<>>
                   /\ result.evaluations[k - 1].text = <<>>
    /\ (call.op = "compilation_step" /\ ~Ret.success) =>
           result.executables = <<>>
    /\ (call.op = "Batch.evaluate" /\ job.success = <<FALSE>>) =>
           /\ job.outcome = <<>>
           /\ job.text = <<>>
           /\ job.user_output = <<>>

\* The calls the last Batch.evaluate made on its sandboxes.
Calls == call.ret.calls
\* The places in Calls of the comparisons: a run of white_diff or of the
\* comparator.
Comparisons ==
    {i \in DOMAIN Calls : /\ Calls[i].op = "run"
                          /\ Calls[i].arg \in {"white_diff", "checker"}}
\* The places in Calls of the run of the executable of the contestant.
UserRun == {i \in DOMAIN Calls : Calls[i] = Run("evaluate", "a.out")}
\* The places in Calls where the sandbox box was created.
Created(box) == {i \in DOMAIN Calls : Calls[i] = Create(box)}
\* The run of the contestant succeeded, passed and left its output file,
\* and the job asks for more than the execution.
ReachesCheck ==
    /\ call.args.one_executable
    /\ grading_evaluation_step(call.args.user)
    /\ is_evaluation_passed(call.args.user)
    /\ call.args.exists
    /\ ~call.args.only_execution

\* C21: in Batch.evaluate every comparison runs in a sandbox other than the
\* one of the run of the contestant, created once and after that run; that
\* sandbox is created exactly when the run succeeded, passed, left its
\* output file and only_execution is false, so no comparison follows a run
\* that was timed out or killed.
C21_CheckInOwnSandbox ==
    call.op = "Batch.evaluate" =>
        /\ \A i \in Comparisons :
               /\ \A r \in UserRun : Calls[i].box # Calls[r].box
               /\ Cardinality(Created(Calls[i].box)) = 1
               /\ \A c \in Created(Calls[i].box) :
                      c < i /\ \E r \in UserRun : r < c
        /\ (\E i \in DOMAIN Calls :
                Calls[i].op = "create_sandbox" /\ Calls[i].box # "evaluate")
               <=> ReachesCheck
        /\ ~is_evaluation_passed(call.args.user) => Comparisons = {}

\* C21 witness: Batch.evaluate ran the comparator in the check sandbox.
C21_Witness ==
    /\ call.op = "Batch.evaluate"
    /\ \E i \in Comparisons : Calls[i] = Run("check", "checker")
    /\ Created("check") # {}

\* Batch.evaluate got to the comparison of an output file that is a
\* symbolic link, in one of the two modes.
LinkedOutput ==
    /\ call.op = "Batch.evaluate"
    /\ ReachesCheck
    /\ call.args.symlink
    /\ call.args.mode \in {"diff", "comparator"}
\* The output of the contestant was not put into the check sandbox.
NotCopied == \A i \in DOMAIN Calls : Calls[i].arg # "output.txt" \/ Calls[i].box = "evaluate"
\* The testcase is a zero of the contestant.
ZeroOutcome == job.success = <<TRUE>> /\ job.outcome = <<str(0)>>

\* C22 as stated: an output file that is a symbolic link is not copied into
\* the check sandbox, in diff mode and in comparator mode alike, and the
\* testcase gets outcome 0.0 with success True.
C22_SymlinkRejected ==
    LinkedOutput => (NotCopied /\ ZeroOutcome)

\* C22 amended: the link is not copied in either mode; in diff mode the
\* testcase gets outcome 0.0 with success True, and with a comparator the
\* result is what the comparator, run without that file, wrote: its outcome
\* with success True when its output can be read, success False without
\* outcome when it is missing, failed or wrote what cannot be read.
C22_SymlinkRejectedAmended ==
    LinkedOutput =>
        /\ NotCopied
        /\ call.args.mode = "diff" => ZeroOutcome
        /\ call.args.mode = "comparator" =>
               IF /\ call.args.has_checker
                  /\ grading_evaluation_step(call.args.checker)
                  /\ Parses(call.args.checker)
               THEN /\ job.success = <<TRUE>>
                    /\ job.outcome =
                           <<str(float(strip(call.args.checker.stdout))[1])>>
               ELSE job.success = <<FALSE>> /\ job.outcome = <<>>

\* C22 witness: in diff mode, a link to a file white_diff would find
\* correct got the outcome 0.0.
C22_Witness ==
    /\ LinkedOutput
    /\ call.args.mode = "diff"
    /\ call.args.same
    /\ ZeroOutcome

\* C23: OutputOnly.evaluate for a testcase whose output file was not
\* submitted sets success True, outcome 0.0 and the text "File not
\* submitted" and creates no sandbox; OutputOnly.compile reports success
\* True and compilation_success True and creates no sandbox.
C23_OutputOnlyPartial ==
    /\ (call.op = "OutputOnly.evaluate" /\ ~call.args.exists) =>
           /\ job.success = <<TRUE>>
           /\ job.outcome = <<<<"0", ".", "0">>>>
           /\ job.text = <<"File not submitted">>
           /\ sandboxes = <<>>
    /\ call.op = "OutputOnly.compile" =>
           /\ job.success = <<TRUE>>
           /\ job.compilation_success = <<TRUE>>
           /\ sandboxes = <<>>

\* C23 witness: OutputOnly.evaluate returned for a testcase whose output
\* file was not submitted.
C23_Witness ==
    /\ call.op = "OutputOnly.evaluate"
    /\ ~call.args.exists
    /\ call.ret.raised = ""
    /\ job.text = <<"File not submitted">>

\* Batch.evaluate met an error of the configuration of the task: the
\* comparator mode without a manager named checker, or a mode it does not
\* know.
ConfigurationError ==
    /\ call.op = "Batch.evaluate"
    /\ ReachesCheck
    /\ \/ call.args.mode = "comparator" /\ ~call.args.has_checker
       \/ call.args.mode \notin {"diff", "comparator"}

\* C24: every configuration error Batch.evaluate meets ends with
\* job.success False and job.outcome None, and Batch.evaluate returns
\* without raising.
C24_ConfigurationErrorIsFailure ==
    ConfigurationError =>
        /\ call.ret.raised = ""
        /\ job.success = <<FALSE>>
        /\ job.outcome = <<>>

\* C25: Batch.compile on a job that has not exactly one file ends with
\* success True, compilation_success False and the text "Invalid files in
\* submission", creates no sandbox, calls no compiler and stores no
\* executable; with one file and a grader, the grader is the first of the
\* sources given to the compiler.
C25_CompileInvalidFiles ==
    call.op = "Batch.compile" =>
        /\ call.args.files # 1 =>
               /\ job.success = <<TRUE>>
               /\ job.compilation_success = <<FALSE>>
               /\ job.text = <<"Invalid files in submission">>
               /\ sandboxes = <<>>
               /\ call.ret.sources = <<>>
               /\ job.executables = {}
        /\ (call.args.files = 1 /\ call.args.grader) =>
               /\ Len(call.ret.sources) = 2
               /\ call.ret.sources[1][1] = "grader"
               /\ call.ret.sources[2][1] # "grader"

\* C25 witness: a job of one file was compiled with a grader and its
\* executable stored.
C25_Witness ==
    /\ call.op = "Batch.compile"
    /\ call.args.files = 1
    /\ call.args.grader
    /\ call.ret.sources[1][1] = "grader"
    /\ job.executables = {"a.out"}

\* The lines of a file: what stands between two "\n", or before the first
\* or after the last when that is not empty.
LinesOf(file) ==
    LET pieces == split(file, "\n")
    IN  IF pieces[Len(pieces)] = <<>> THEN Front(pieces, 1) ELSE pieces
\* The canonical form of line i of a file.
Canonical(file, i) == white_diff_canonicalize(LinesOf(file)[i])
\* The two files have equal canonical lines up to the end of the shorter
\* one, and the lines after that canonicalize to the empty string.
SameUpToWhites(a, b) ==
    LET n == Len(LinesOf(a))
        m == Len(LinesOf(b))
    IN  /\ \A i \in 1..Min(n, m) : Canonical(a, i) = Canonical(b, i)
        /\ \A i \in (m + 1)..n : Canonical(a, i) = <<>>
        /\ \A i \in (n + 1)..m : Canonical(b, i) = <<>>

\* C26: white_diff(a, b) is True exactly when the canonical forms of the
\* lines of a and b agree up to the end of the shorter file and every line
\* after it canonicalizes to the empty string; white_diff("1 2\n", "1  2")
\* is True and white_diff("1 2\n3\n", "1 2\n") is False.
C26_WhiteDiffByLines ==
    /\ call.op = "white_diff" =>
           (call.ret.ab <=> SameUpToWhites(call.args.a, call.args.b))
    /\ call.op = "white_diff" =>
           /\ white_diff(<<"1", " ", "2", "\n">>, <<"1", " ", " ", "2">>)
           /\ ~white_diff(<<"1", " ", "2", "\n", "3", "\n">>,
                          <<"1", " ", "2", "\n">>)

\* C26 witness: white_diff held for two files of one and of two lines.
C26_Witness ==
    /\ call.op = "white_diff"
    /\ call.ret.ab
    /\ Len(LinesOf(call.args.a)) = 2
    /\ Len(LinesOf(call.args.b)) = 1

\* A string without whitespace at its ends and without two whitespaces in
\* a row.
Tidy(string) ==
    /\ string # <<>> =>
           /\ string[1] \notin Range(WHITES)
           /\ string[Len(string)] \notin Range(WHITES)
    /\ \A i \in 1..(Len(string) - 1) :
           ~(string[i] \in Range(WHITES) /\ string[i + 1] \in Range(WHITES))

\* C27: white_diff is reflexive, symmetric and transitive, and
\* white_diff_canonicalize is idempotent and returns a string without
\* leading, trailing or doubled whitespace.
C27_WhiteDiffEquivalence ==
    /\ call.op = "white_diff" =>
           (call.ret.aa /\ call.ret.ab = call.ret.ba)
    /\ call.op = "white_diff three" =>
           ((call.ret.ab /\ call.ret.bc) => call.ret.ac)
    /\ call.op = "white_diff_canonicalize" =>
           (call.ret.twice = call.ret.once /\ Tidy(call.ret.once))

\* C27 witness: white_diff held between three different files.
C27_Witness ==
    /\ call.op = "white_diff three"
    /\ call.ret.ab /\ call.ret.bc /\ call.ret.ac
    /\ Cardinality({call.args.a, call.args.b, call.args.c}) = 3

C29_DeliveredIff200Or201 ==
    /\ call.op \in {"safe_put_data", "safe_post_data"} =>
           (call.ret.returned <=> call.args.status \in {200, 201})
    /\ call.op = "initialize" =>
           /\ call.ret.new_queue = <<>> =>
                  \A i \in 1..3 : call.args.resp[i] \in {200, 201}
           /\ call.ret.returned <=> call.ret.new_queue = <<>>

\* C29 witness: an initialize entry left the queue after the answers 200,
\* 201 and 200.
C29_Witness ==
    /\ call.op = "initialize"
    /\ call.args.resp = <<200, 201, 200>>
    /\ call.ret.new_queue = <<>>

\* "_" and the two hexadecimal digits of the code of a character.
Escaped(char) ==
    <<"_", HexDigits[(ord(char) \div 16) + 1], HexDigits[(ord(char) % 16) + 1]>>
\* The id with every character that is not a letter or a digit escaped.
RECURSIVE EscapedId(_)
EscapedId(entity_id) ==
    IF entity_id = <<>> THEN <<>>
    ELSE (IF Head(entity_id) \in Alphanumeric THEN <<Head(entity_id)>>
          ELSE Escaped(Head(entity_id)))
         \o EscapedId(Tail(entity_id))

\* C30: encode_id returns a string over letters, digits and "_" in which
\* every letter and digit of the id is kept and every other character, "_"
\* and the characters below 0x10 among them, is replaced by "_" and the two
\* hexadecimal digits of its code.
C30_EncodeIdEscapes ==
    call.op = "encode_id" =>
        /\ Range(call.ret.encoded_id) \subseteq Alphanumeric \cup {"_"}
        /\ call.ret.encoded_id = EscapedId(call.args.entity_id)

\* C31: an executable is stored only after a successful compilation:
\* compilation_step fills result["executables"] only when the sandbox status
\* is OK with exit code 0, and Batch.compile adds an entry to job.executables
\* exactly when operation_success and compilation_success are both True.
C31_StoredOnlyWhenCompiled ==
    /\ call.op = "compilation_step" =>
           (result.executables # <<>> => Box.ran /\ Compiled(Box))
    /\ call.op = "Batch.compile" =>
           (job.executables # {} <=>
                job.success = <<TRUE>> /\ job.compilation_success = <<TRUE>>)
C31_Witness ==
    /\ call.op = "Batch.compile"
    /\ job.executables = {"a.out"}
    /\ job.compilation_success = <<TRUE>>

\* C32: compilation_step returns a tuple of four values (operation_success,
\* compilation_success, text, stats) on every path.
C32_CompilationStepShape ==
    call.op = "compilation_step" => Len(call.ret.tuple) = 4

\* C33: whenever get_current_user returns None, for whatever reason (more
\* than one participation matching the remote address under IP autologin
\* among them), and whenever the participation was obtained by IP
\* autologin, clear_cookie has been called on the login cookie.
C33_NoLoginClearsCookie ==
    call.op = "get_current_user" =>
        (call.ret.participation = <<>> \/ call.ret.by_ip
             => call.ret.clear_cookie)

(***************************************************************************)
(* Properties of the order of the deliveries to one ranking.               *)
(***************************************************************************)
\* The entry the for loop of dispatch_operations is at.
AtEntry == operation_queue[queue_pos]
\* The step delivers the entry the loop is at.
Delivers ==
    /\ pc = "dispatch"
    /\ queue_pos <= Len(operation_queue)
    /\ delivered'[AtEntry.ranking] # delivered[AtEntry.ranking]
\* The send_submission entry appended by the call that appended the
\* send_change entry e, for the same ranking, is the one appended just
\* before e.
PairedBefore(e) ==
    \A s \in Range(operation_queue) :
        s.n = e.n - 1 =>
            /\ s.method = "send_submission"
            /\ s.ranking = e.ranking
            /\ s.id = e.id

\* C34: for every ranking and every call of new_evaluation or
\* submission_tokened, the send_change entry of the call is not delivered
\* to the ranking before the send_submission entry of the same call was
\* delivered to it, whatever deliveries fail in between.
C34_ChangeAfterSubmission ==
    [][(Delivers /\ AtEntry.method = "send_change") =>
          /\ PairedBefore(AtEntry)
          /\ (AtEntry.n - 1) \in Range(delivered[AtEntry.ranking])]_vars

\* C34 witness: in the running tick a send_change was delivered whose
\* send_submission was delivered in an earlier tick, the one in which the
\* first call of this send_change failed.
C34_Witness ==
    /\ pc = "dispatch"
    /\ \E a \in Range(attempts) :
         /\ a.ok
         /\ \E e \in Range(operation_queue) :
                e.n = a.n /\ e.method = "send_change"
         /\ (a.n - 1) \in Range(delivered[a.ranking])
         /\ ~\E b \in Range(attempts) : b.n = a.n - 1

\* The serial of the initialize entry __init__ appended for ranking r.
StartInitialize(r) == CHOOSE i \in 1..Len(rankings) : rankings[i] = r
\* The entries of submissions: send_submission and send_change.
SubmissionEntry(e) == e.method \in {"send_submission", "send_change"}

\* C35: no send_submission or send_change is delivered to a ranking before
\* the initialize entry enqueued for that ranking at the start of the
\* service was delivered, its three requests accepted.
C35_InitializeFirst ==
    /\ [][(Delivers /\ SubmissionEntry(AtEntry)) =>
             StartInitialize(AtEntry.ranking)
                 \in Range(delivered[AtEntry.ranking])]_vars
    /\ [][(Delivers /\ AtEntry.n = StartInitialize(AtEntry.ranking)) =>
             /\ AtEntry.method = "initialize"
             /\ delivered[AtEntry.ranking] = <<>>]_vars

\* C35 witness: in a tick a ranking has got its initialize and an entry of
\* a submission, while the other ranking, whose initialize failed, has got
\* nothing and keeps an entry of a submission in the queue.
C35_Witness ==
    /\ pc = "dispatch"
    /\ \E r, q \in AllRankings :
         /\ Len(delivered[r]) >= 2
         /\ delivered[r][1] = StartInitialize(r)
         /\ q \in failed_rankings
         /\ delivered[q] = <<>>
         /\ \E e \in Range(new_queue) : e.ranking = q /\ SubmissionEntry(e)

(***************************************************************************)
(* Properties of what the two RPCs append.                                 *)
(***************************************************************************)
\* The id of the recorded call, and its user being hidden.
CallId == call.args.submission_id
ForHidden == CallId \in Subs /\ UserHidden(SubUser(CallId))
\* The entries of the call: for each ranking, in the order of the
\* configuration, send_submission and then send_change.
TwoPerRanking(q) ==
    /\ Len(q) = 2 * Len(rankings)
    /\ \A i \in 1..Len(rankings) :
         /\ q[2 * i - 1].method = "send_submission"
         /\ q[2 * i].method = "send_change"
         /\ \A k \in {2 * i - 1, 2 * i} :
                q[k].ranking = rankings[i] /\ q[k].id = CallId
\* The calls the claim says change nothing.
Ignored ==
    \/ ForHidden
    \/ call.op = "new_evaluation" /\ CallId \notin Subs

\* C36: new_evaluation and submission_tokened for a submission of a hidden
\* user, and new_evaluation for an id that is not in the database, leave
\* operation_queue, submission_ids_scored, submission_ids_tokened and the
\* pools unchanged; every other call appends exactly two entries per
\* configured ranking, send_submission and then send_change.
C36_AppendsTwoPerRanking ==
    call.op \in {"new_evaluation", "submission_tokened"} =>
        IF Ignored THEN call.ret.unchanged
        ELSE call.ret.kept /\ TwoPerRanking(call.ret.appended)

\* C36 amended: the calls of the claim, and submission_tokened for an id
\* that is not in the database (it raises KeyError), leave the four
\* unchanged; a call of new_evaluation that raises in its body appends
\* nothing; every other call appends exactly two entries per configured
\* ranking, send_submission and then send_change.
C36_AppendsTwoPerRankingAmended ==
    call.op \in {"new_evaluation", "submission_tokened"} =>
        IF Ignored \/ CallId \notin Subs THEN call.ret.unchanged
        ELSE IF call.ret.raised
        THEN call.ret.kept /\ call.ret.appended = <<>>
        ELSE call.ret.kept /\ TwoPerRanking(call.ret.appended)

\* C36 witness: submission_tokened of a visible submission appended its
\* four entries behind entries that were in the queue.
C36_Witness ==
    /\ call.op = "submission_tokened"
    /\ ~Ignored /\ CallId \in Subs
    /\ Len(call.ret.appended) = 4
    /\ Len(operation_queue) > 4

(***************************************************************************)
(* Properties of the scan for the jobs not done.                           *)
(***************************************************************************)
\* The ids a step puts at the front of submission_ids_to_score.
PutInFront ==
    IF Len(submission_ids_to_score') > Len(submission_ids_to_score)
    THEN Range(SubSeq(submission_ids_to_score', 1,
                      Len(submission_ids_to_score')
                          - Len(submission_ids_to_score)))
    ELSE {}
\* Nothing is left to score or to token and no timeout is alive.
CaughtUp ==
    /\ submission_ids_to_score = <<>>
    /\ submission_ids_to_token = <<>>
    /\ armed = 0

\* C37: an id score_old_submissions passed to new_evaluation is not put in
\* submission_ids_to_score again by a later scan of search_jobs_not_done,
\* so that, the evaluated submissions being fixed and no score being
\* invalidated, the backlog is eventually empty for good and the timeout
\* of the catch-up is not armed again.
C37_ScannedOnce ==
    /\ [][PutInFront \cap catchup.passed = {}]_vars
    /\ <>[]CaughtUp

\* The number of places of q that hold x.
Occurrences(q, x) == Cardinality({i \in 1..Len(q) : q[i] = x})

\* C38: whatever the interleaving of search_jobs_not_done,
\* invalidate_submission and score_old_submissions, a submission id is at
\* most once in submission_ids_to_score.
C38_QueuedAtMostOnce ==
    \A s \in Ids : Occurrences(submission_ids_to_score, s) <= 1

\* C39: in Batch.evaluate the test for a symbolic link comes before every
\* read of the output file of the contestant: an output file that is a link
\* is passed neither to get_file_to_storage (with job.get_output, which
\* fills job.user_output) nor to copyfile.
C39_LinkNeverRead ==
    (call.op = "Batch.evaluate" /\ call.args.symlink) =>
        /\ \A i \in DOMAIN Calls : Calls[i].arg # "output.txt"
        /\ job.user_output = <<>>

(***************************************************************************)
(* Properties of the order of the tasks of a contest.                      *)
(***************************************************************************)
\* The nums of the n tasks of contest c are 0..n-1, each once.
Numbered(c) ==
    LET mine == TasksOf(task_db, c)
    IN  /\ \A t \in mine : task_db[t].num # <<>>
        /\ {task_db[t].num : t \in mine}
               = {<<k>> : k \in 0..(Cardinality(mine) - 1)}
        /\ \A t, u \in mine : task_db[t].num = task_db[u].num => t = u
\* The task of the recorded request was, at the request, at place k of the
\* contest of the request, which had n tasks.
WasAt(k, n) ==
    /\ call.ret.before[call.args.task_id].contest = <<call.args.contest>>
    /\ call.ret.before[call.args.task_id].num = <<k>>
    /\ Cardinality(TasksOf(call.ret.before, call.args.contest)) = n

\* C40: after any sequence of the admin requests "add task to contest",
\* "Remove from contest", "Move up" and "Move down", with any task ids, the
\* nums of the n tasks of every contest are exactly 0..n-1, without gap or
\* duplicate, and "Move up" on the first task and "Move down" on the last
\* task change nothing.
C40_TaskNumsContiguous ==
    /\ \A c \in Contests : Numbered(c)
    /\ (call.op = "Move up" /\ \E n \in 1..NumTasks : WasAt(0, n))
           => task_db = call.ret.before
    /\ (call.op = "Move down" /\ \E n \in 1..NumTasks : WasAt(n - 1, n))
           => task_db = call.ret.before

====
